---- MODULE Spec2Model ----
(***************************************************************************)
(* Model of the daily advancement engine of the onsen resort game          *)
(* (OnsenResort.new_day and the objects it reads and writes) together with *)
(* the player commands that prepare the state between two day advances.    *)
(*                                                                         *)
(* Fixed-point conventions                                                 *)
(*   reputation, satisfaction, occupancy : hundredths (RepScale)           *)
(*   money, income, expenses, salary     : quarter yen (MoneyScale)        *)
(*   entry-fee multiplier                : 1/4000 (MultScale)              *)
(* Every product of catalogue discounts is a multiple of 1/4000 and every  *)
(* entry fee the model draws is a multiple of 1000, so the money figures   *)
(* are exact; satisfaction is rounded down to the next hundredth.          *)
(***************************************************************************)
EXTENDS Integers, Sequences, FiniteSets, TLC

\* ------------------------------------------------------------------ bounds
MaxDay == 3
MaxCalendarDay == 181
MaxPools == 2
MaxStaff == 2
MaxVisitors == 2
MaxScenarioDay == 2
MaxMarketingDay == 9
MaxBoredomDay == 335
MaxBuildDay == 42
MaxFacilities == 2
MaxCrowd == 6
MaxFeedbackDay == 3

\* ------------------------------------------------------------------ scales
RepScale == 100
MoneyScale == 4
MultScale == 4000

Yen(x) == x * MoneyScale

\* ------------------------------------------------------------------ helpers
Min(a, b) == IF a <= b THEN a ELSE b
Max(a, b) == IF a >= b THEN a ELSE b
Abs(x) == IF x < 0 THEN -x ELSE x

RECURSIVE SumSeq(_)
SumSeq(s) == IF s = <<>> THEN 0 ELSE Head(s) + SumSeq(Tail(s))

Range(s) == {s[i] : i \in 1..Len(s)}

\* The subsequence of s at the positions where keep is TRUE.
RECURSIVE Filter(_, _)
Filter(s, keep) ==
    IF s = <<>> THEN <<>>
    ELSE IF Head(keep) THEN <<Head(s)>> \o Filter(Tail(s), Tail(keep))
         ELSE Filter(Tail(s), Tail(keep))

\* All sequences over S of length 0..n.
SeqUpTo(S, n) == UNION {[1..k -> S] : k \in 0..n}

\* ------------------------------------------------------------------ catalogues
seasons == <<"Spring", "Summer", "Autumn", "Winter">>

SeasonIndex(s) == CHOOSE i \in 1..4 : seasons[i] = s

base_temps == [Spring |-> 15, Summer |-> 28, Autumn |-> 18, Winter |-> 5]

weather_chances ==
    [Spring |-> {"Clear", "Cloudy", "Rain"},
     Summer |-> {"Clear", "Cloudy", "Rain", "Storm"},
     Autumn |-> {"Clear", "Cloudy", "Rain", "Fog"},
     Winter |-> {"Clear", "Cloudy", "Snow", "Blizzard"}]

PersonalityNames ==
    {"Relaxation Seeker", "Luxury Enthusiast", "Health Conscious",
     "Budget Traveler", "Traditional Purist", "Social Butterfly"}

\* preferences: temperature range, minimum cleanliness, minimum staff skill,
\* price_sensitivity and facility_importance in tenths.
PERSONALITIES ==
    [p \in PersonalityNames |->
       CASE p = "Relaxation Seeker" ->
              [min_temp |-> 38, max_temp |-> 40, cleanliness |-> 90,
               staff_skill |-> 70, price_sensitivity |-> 8, facility_importance |-> 5]
         [] p = "Luxury Enthusiast" ->
              [min_temp |-> 39, max_temp |-> 41, cleanliness |-> 98,
               staff_skill |-> 95, price_sensitivity |-> 4, facility_importance |-> 9]
         [] p = "Health Conscious" ->
              [min_temp |-> 40, max_temp |-> 42, cleanliness |-> 95,
               staff_skill |-> 75, price_sensitivity |-> 6, facility_importance |-> 7]
         [] p = "Budget Traveler" ->
              [min_temp |-> 37, max_temp |-> 41, cleanliness |-> 80,
               staff_skill |-> 55, price_sensitivity |-> 10, facility_importance |-> 4]
         [] p = "Traditional Purist" ->
              [min_temp |-> 41, max_temp |-> 43, cleanliness |-> 90,
               staff_skill |-> 85, price_sensitivity |-> 7, facility_importance |-> 6]
         [] p = "Social Butterfly" ->
              [min_temp |-> 38, max_temp |-> 40, cleanliness |-> 85,
               staff_skill |-> 75, price_sensitivity |-> 6, facility_importance |-> 8]]

reasonable_price ==
    [p \in PersonalityNames |->
       CASE p = "Budget Traveler" -> 1500
         [] p = "Relaxation Seeker" -> 2500
         [] p = "Health Conscious" -> 3000
         [] p = "Traditional Purist" -> 3500
         [] p = "Social Butterfly" -> 3000
         [] p = "Luxury Enthusiast" -> 5000]

max_acceptable_fee ==
    [p \in PersonalityNames |->
       CASE p = "Budget Traveler" -> 3000
         [] p = "Relaxation Seeker" -> 5000
         [] p = "Health Conscious" -> 6000
         [] p = "Traditional Purist" -> 7000
         [] p = "Social Butterfly" -> 6000
         [] p = "Luxury Enthusiast" -> 10000]

Roles ==
    {"Manager", "Receptionist", "Attendant", "Cleaner",
     "Chef", "Server", "Maintenance", "Security"}

base_salary ==
    [r \in Roles |->
       CASE r = "Manager" -> 5000
         [] r = "Receptionist" -> 3000
         [] r = "Attendant" -> 2500
         [] r = "Cleaner" -> 2000
         [] r = "Chef" -> 4000
         [] r = "Server" -> 2200
         [] r = "Maintenance" -> 3500
         [] r = "Security" -> 3000]

\* skill multipliers in tenths
skill_multipliers == <<0, 3, 7, 12, 20, 30, 42, 56, 72, 90>>

EventNames ==
    {"Celebrity Visit", "Travel Magazine Feature", "Local Festival",
     "Hot Spring Quality Improved", "Plumbing Issue", "Health Inspection",
     "Staff Conflict", "Competing Onsen Opened", "Travel Blogger Visit",
     "Weather Phenomenon"}

\* name, discount_percent, duration, target
Promotions ==
    <<[name |-> "Weekday Special", discount_percent |-> 20, duration |-> 14, target |-> "entry"],
      [name |-> "Couples Package", discount_percent |-> 15, duration |-> 7, target |-> "all"],
      [name |-> "Senior Discount", discount_percent |-> 25, duration |-> 30, target |-> "entry"],
      [name |-> "Family Package", discount_percent |-> 10, duration |-> 14, target |-> "all"],
      [name |-> "Dining Special", discount_percent |-> 15, duration |-> 10, target |-> "restaurant"]>>

\* name, cost, duration, daily reputation gain in hundredths
Campaigns ==
    <<[name |-> "Local Newspaper Ad", cost |-> 5000, duration |-> 7, gain |-> 50],
      [name |-> "Travel Magazine Feature", cost |-> 20000, duration |-> 14, gain |-> 100],
      [name |-> "TV Commercial", cost |-> 50000, duration |-> 30, gain |-> 150],
      [name |-> "Social Media Campaign", cost |-> 15000, duration |-> 21, gain |-> 70],
      [name |-> "Tourism Partnership", cost |-> 30000, duration |-> 60, gain |-> 30]>>

\* INGREDIENTS: name, cost (yen a day), popularity_bonus
Ingredients ==
    <<[name |-> "Sulfur", cost |-> 500, popularity_bonus |-> 5],
      [name |-> "Iron", cost |-> 600, popularity_bonus |-> 3],
      [name |-> "Sodium Bicarbonate", cost |-> 400, popularity_bonus |-> 4],
      [name |-> "Radium", cost |-> 1000, popularity_bonus |-> 10],
      [name |-> "Green Tea Extract", cost |-> 800, popularity_bonus |-> 8],
      [name |-> "Sake", cost |-> 1200, popularity_bonus |-> 15],
      [name |-> "Hydrogen Carbonate", cost |-> 700, popularity_bonus |-> 6],
      [name |-> "Alum", cost |-> 500, popularity_bonus |-> 4]>>

\* ------------------------------------------------------------------ state
VARIABLES
    day, season, money, reputation, entry_fee,
    pools,              \* sequence of pool records
    facilities,         \* sequence of facility records
    staff,              \* staff_manager.staff: sequence of staff records
    weather,            \* [conditions, temperature, season]
    campaigns,          \* per catalogue campaign: [active, days_remaining]
    active_campaigns,   \* sequence of catalogue indexes
    promotions,         \* per catalogue promotion: [active, days_remaining]
    active_promotions,  \* sequence of catalogue indexes
    guests, daily_income, daily_expenses,
    daily_visitors,     \* sequence of [personality, satisfaction]
    customer_feedback,  \* sequence of [personality, satisfaction, feedback]
    event_log,          \* sequence of log entries
    last_upgrade_day, boredom_factor,
    pc                  \* "idle" between commands, "raised" after an uncaught
                        \* exception, "returned" after a direct call returned

vars ==
    <<day, season, money, reputation, entry_fee, pools, facilities, staff,
      weather, campaigns, active_campaigns, promotions, active_promotions,
      guests, daily_income, daily_expenses, daily_visitors, customer_feedback,
      event_log, last_upgrade_day, boredom_factor, pc>>

\* The resort aggregate as one record, the value the engine's steps transform.
Resort ==
    [day |-> day, season |-> season, money |-> money, reputation |-> reputation,
     entry_fee |-> entry_fee, pools |-> pools, facilities |-> facilities,
     staff |-> staff, weather |-> weather, campaigns |-> campaigns,
     active_campaigns |-> active_campaigns, promotions |-> promotions,
     active_promotions |-> active_promotions, guests |-> guests,
     daily_income |-> daily_income, daily_expenses |-> daily_expenses,
     daily_visitors |-> daily_visitors, customer_feedback |-> customer_feedback,
     event_log |-> event_log, last_upgrade_day |-> last_upgrade_day,
     boredom_factor |-> boredom_factor, pc |-> pc]

Commit(r) ==
    /\ day' = r.day
    /\ season' = r.season
    /\ money' = r.money
    /\ reputation' = r.reputation
    /\ entry_fee' = r.entry_fee
    /\ pools' = r.pools
    /\ facilities' = r.facilities
    /\ staff' = r.staff
    /\ weather' = r.weather
    /\ campaigns' = r.campaigns
    /\ active_campaigns' = r.active_campaigns
    /\ promotions' = r.promotions
    /\ active_promotions' = r.active_promotions
    /\ guests' = r.guests
    /\ daily_income' = r.daily_income
    /\ daily_expenses' = r.daily_expenses
    /\ daily_visitors' = r.daily_visitors
    /\ customer_feedback' = r.customer_feedback
    /\ event_log' = r.event_log
    /\ last_upgrade_day' = r.last_upgrade_day
    /\ boredom_factor' = r.boredom_factor
    /\ pc' = r.pc

\* OnsenResort.__init__
Init ==
    /\ day = 1
    /\ season = "Spring"
    /\ money = Yen(75000)
    /\ reputation = 50 * RepScale
    /\ entry_fee = 2000
    /\ pools = <<>>
    /\ facilities = <<>>
    /\ staff = <<>>
    /\ weather = [conditions |-> "Clear", temperature |-> 20, season |-> "Spring"]
    /\ campaigns = [i \in 1..Len(Campaigns) |->
                      [active |-> FALSE, days_remaining |-> Campaigns[i].duration]]
    /\ active_campaigns = <<>>
    /\ promotions = [i \in 1..Len(Promotions) |->
                       [active |-> FALSE, days_remaining |-> Promotions[i].duration]]
    /\ active_promotions = <<>>
    /\ guests = 0
    /\ daily_income = 0
    /\ daily_expenses = 0
    /\ daily_visitors = <<>>
    /\ customer_feedback = <<>>
    /\ event_log = <<>>
    /\ last_upgrade_day = 1
    /\ boredom_factor = 0
    /\ pc = "idle"

\* ------------------------------------------------------------------ weather
\* Weather.update: the season's base temperature plus the drawn variation,
\* and the condition the cumulative draw selects from the season's table.
WeatherUpdate(w, s, variation, condition) ==
    [conditions |-> condition,
     temperature |-> base_temps[s] + variation,
     season |-> s]

\* Weather.get_guest_impact, in hundredths.
get_guest_impact(w) ==
    LET m == CASE w.conditions = "Clear" -> 120
               [] w.conditions = "Cloudy" -> 100
               [] w.conditions = "Rain" -> 80
               [] w.conditions = "Storm" -> 50
               [] w.conditions = "Snow" -> 110
               [] w.conditions = "Blizzard" -> 60
               [] w.conditions = "Fog" -> 90
               [] OTHER -> 100
    IN IF w.temperature > 35 \/ w.temperature < -5 THEN (m * 7) \div 10 ELSE m

\* ------------------------------------------------------------------ staff
\* Staff._calculate_salary, in quarter yen.
calculate_salary(role, skill_level) ==
    LET capped_skill == Min(skill_level, Len(skill_multipliers))
    IN (base_salary[role] * (10 + skill_multipliers[capped_skill]) * MoneyScale) \div 10

\* Staff.__init__
NewStaff(name, role, skill_level) ==
    [name |-> name, role |-> role, skill_level |-> skill_level, happiness |-> 80,
     salary |-> calculate_salary(role, skill_level), days_worked |-> 0]

\* Fault variant of StaffWork: the skill review does not wait for a 30th
\* worked day, the 30% draw decides on every day.
StaffWorkReviewEveryDay(st, w) ==
    LET skill == IF w.skillup THEN Min(5, st.skill_level + 1) ELSE st.skill_level
    IN [st EXCEPT !.days_worked = st.days_worked + 1,
                  !.happiness = Max(0, st.happiness - w.decay),
                  !.skill_level = skill,
                  !.salary = IF w.skillup THEN calculate_salary(st.role, skill) ELSE st.salary]

\* Staff.work: w.decay in 0..2, w.skillup is the 30% draw.
StaffWork(st, w) ==
    LET worked == st.days_worked + 1
        promoted == worked % 30 = 0 /\ w.skillup
        skill == IF promoted THEN Min(5, st.skill_level + 1) ELSE st.skill_level
    IN [st EXCEPT !.days_worked = worked,
                  !.happiness = Max(0, st.happiness - w.decay),
                  !.skill_level = skill,
                  !.salary = IF promoted THEN calculate_salary(st.role, skill) ELSE st.salary]

\* One iteration of StaffManager.work_day: work(), then the 5% mood event
\* (w.mood = 0: no event, positive: happiness gain, negative: loss).
StaffWorkDayOne(st, w) ==
    LET s1 == StaffWork(st, w)
    IN IF w.mood > 0 THEN [s1 EXCEPT !.happiness = Min(100, s1.happiness + w.mood)]
       ELSE IF w.mood < 0 THEN [s1 EXCEPT !.happiness = Max(0, s1.happiness + w.mood)]
       ELSE s1

\* StaffManager.work_day
work_day(roster, work) == [i \in 1..Len(roster) |-> StaffWorkDayOne(roster[i], work[i])]

\* StaffManager.get_total_salary
get_total_salary(roster) == SumSeq([i \in 1..Len(roster) |-> roster[i].salary])

\* StaffManager.get_staff_by_role
get_staff_by_role(roster, role) ==
    Filter(roster, [i \in 1..Len(roster) |-> roster[i].role = role])

\* StaffManager.get_average_skill, in hundredths.
get_average_skill(roster) ==
    IF roster = <<>> THEN 0
    ELSE (SumSeq([i \in 1..Len(roster) |-> roster[i].skill_level]) * RepScale) \div Len(roster)

\* Staff.give_bonus
give_bonus(st, amount) == [st EXCEPT !.happiness = Min(100, st.happiness + amount \div 100)]

\* ------------------------------------------------------------------ marketing
\* Removes the first occurrence of x from s (list.remove).
RECURSIVE RemoveFirst(_, _)
RemoveFirst(s, x) ==
    IF s = <<>> THEN <<>>
    ELSE IF Head(s) = x THEN Tail(s) ELSE <<Head(s)>> \o RemoveFirst(Tail(s), x)

\* Fault variant of CampaignEffect: the gains are added without the cap at 100.
CampaignEffectUncapped(c, rep, viral) ==
    IF Campaigns[c].name = "Social Media Campaign" /\ viral > 0
    THEN rep + Campaigns[c].gain + viral * RepScale
    ELSE rep + Campaigns[c].gain

\* The effect function of catalogue campaign c on reputation; viral is the
\* Social Media Campaign's bonus draw (0: none, else 5..10).
CampaignEffect(c, rep, viral) ==
    LET r1 == Min(100 * RepScale, rep + Campaigns[c].gain)
    IN IF Campaigns[c].name = "Social Media Campaign" /\ viral > 0
       THEN Min(100 * RepScale, r1 + viral * RepScale)
       ELSE r1

\* MarketingCampaign.apply_daily_effect on the manager state m
\* (m = [campaigns, active_campaigns, reputation]).
apply_daily_effect(m, c, viral) ==
    IF m.campaigns[c].active
    THEN LET left == m.campaigns[c].days_remaining - 1
         IN [m EXCEPT !.reputation = CampaignEffect(c, m.reputation, viral),
                      !.campaigns[c].days_remaining = left,
                      !.campaigns[c].active = (left > 0)]
    ELSE m

\* The campaign loop of MarketingManager.update_daily over a copy of the
\* active list; k counts the iterations to pick each iteration's draw.
RECURSIVE UpdateCampaigns(_, _, _, _)
UpdateCampaigns(m, copy, viral, k) ==
    IF copy = <<>> THEN m
    ELSE LET c == Head(copy)
             m1 == apply_daily_effect(m, c, viral[k])
             m2 == IF ~m1.campaigns[c].active
                   THEN [m1 EXCEPT !.active_campaigns = RemoveFirst(m1.active_campaigns, c)]
                   ELSE m1
         IN UpdateCampaigns(m2, Tail(copy), viral, k + 1)

\* Fault variant of PromotionUpdate: the countdown runs but the promotion is
\* never deactivated.
PromotionUpdateNoExpiry(p) ==
    IF p.active THEN [p EXCEPT !.days_remaining = p.days_remaining - 1] ELSE p

\* Promotion.update
PromotionUpdate(p) ==
    IF p.active
    THEN [p EXCEPT !.days_remaining = p.days_remaining - 1,
                   !.active = (p.days_remaining - 1 > 0)]
    ELSE p

\* The promotion loop of MarketingManager.update_daily
\* (m = [promotions, active_promotions]).
RECURSIVE UpdatePromotions(_, _)
UpdatePromotions(m, copy) ==
    IF copy = <<>> THEN m
    ELSE LET p == Head(copy)
             m1 == [m EXCEPT !.promotions[p] = PromotionUpdate(m.promotions[p])]
             m2 == IF ~m1.promotions[p].active
                   THEN [m1 EXCEPT !.active_promotions = RemoveFirst(m1.active_promotions, p)]
                   ELSE m1
         IN UpdatePromotions(m2, Tail(copy))

MergeMarketing(r, mc, mp) ==
    [r EXCEPT !.campaigns = mc.campaigns,
              !.active_campaigns = mc.active_campaigns,
              !.reputation = mc.reputation,
              !.promotions = mp.promotions,
              !.active_promotions = mp.active_promotions]

\* MarketingManager.update_daily
update_daily(r, viral) ==
    MergeMarketing(r,
        UpdateCampaigns([campaigns |-> r.campaigns,
                         active_campaigns |-> r.active_campaigns,
                         reputation |-> r.reputation],
                        r.active_campaigns, viral, 1),
        UpdatePromotions([promotions |-> r.promotions,
                          active_promotions |-> r.active_promotions],
                         r.active_promotions))

\* Promotion.get_discount_multiplier applied to a multiplier in 1/4000.
ApplyDiscount(mult, p, prom) ==
    IF prom[p].active THEN (mult * (100 - Promotions[p].discount_percent)) \div 100 ELSE mult

\* MarketingManager.get_entry_fee_multiplier, in 1/4000.
RECURSIVE EntryFeeMultiplier(_, _, _)
EntryFeeMultiplier(active, prom, mult) ==
    IF active = <<>> THEN mult
    ELSE LET p == Head(active)
             applies == prom[p].active
                        /\ (Promotions[p].target = "entry" \/ Promotions[p].target = "all")
         IN EntryFeeMultiplier(Tail(active), prom,
                               IF applies THEN ApplyDiscount(mult, p, prom) ELSE mult)

\* Fault variant of get_entry_fee_multiplier: the target of a promotion is not
\* looked at, so a restaurant promotion discounts the entry fee too.
RECURSIVE EveryDiscount(_, _, _)
EveryDiscount(active, prom, mult) ==
    IF active = <<>> THEN mult
    ELSE EveryDiscount(Tail(active), prom, ApplyDiscount(mult, Head(active), prom))

get_entry_fee_multiplier_any_target(r) ==
    EveryDiscount(r.active_promotions, r.promotions, MultScale)

get_entry_fee_multiplier(r) == EntryFeeMultiplier(r.active_promotions, r.promotions, MultScale)


\* ------------------------------------------------------------------ pools
\* OnsenPool.__init__
NewPool(size, temperature) ==
    [size |-> size, temperature |-> temperature, ingredients |-> <<>>,
     cleanliness |-> 100, popularity |-> 50,
     construction_cost |-> CASE size = "Small" -> 50000
                             [] size = "Medium" -> 100000
                             [] size = "Large" -> 200000,
     maintenance_cost |-> CASE size = "Small" -> 1000
                            [] size = "Medium" -> 2000
                            [] size = "Large" -> 4000]

\* OnsenPool.get_daily_cost, in yen.
get_daily_cost(pool) ==
    pool.maintenance_cost + (500 * Abs(pool.temperature - 40)) \div 10

\* OnsenPool.clean
clean(pool) == [pool EXCEPT !.cleanliness = 100]

\* OnsenPool.add_ingredient: k is the catalogue index of the ingredient.
add_ingredient(pool, k) ==
    [pool EXCEPT !.ingredients = Append(pool.ingredients, k),
                 !.popularity = pool.popularity + Ingredients[k].popularity_bonus,
                 !.maintenance_cost = pool.maintenance_cost + Ingredients[k].cost]

\* ------------------------------------------------------------------ facilities
FacilityBase(kind, maintenance_cost, staff_required) ==
    [kind |-> kind, maintenance_cost |-> maintenance_cost,
     staff_required |-> staff_required, quality |-> 50, popularity |-> 50,
     is_operational |-> TRUE, price_tier |-> 0, size |-> 0, rooms |-> 0,
     quality_level |-> 0, room_rate |-> 0, occupancy_rate |-> 0, fee |-> 0,
     style |-> "", type_name |-> ""]

\* Restaurant.__init__
NewRestaurant(price_tier) ==
    [FacilityBase("Restaurant", 5000 * price_tier, 2 * price_tier) EXCEPT
        !.price_tier = price_tier,
        !.quality = 40 + price_tier * 10,
        !.popularity = 40 + price_tier * 5]

\* GiftShop.__init__
NewGiftShop(size) ==
    [FacilityBase("GiftShop", 2000 * size, Max(1, size - 1)) EXCEPT
        !.size = size, !.quality = 50, !.popularity = 40 + size * 5]

\* Accommodation.__init__
NewAccommodation(style, rooms, quality_level) ==
    [FacilityBase("Accommodation", 10000 + rooms * 500 * quality_level,
                  2 + rooms \div 10) EXCEPT
        !.style = style, !.rooms = rooms, !.quality_level = quality_level,
        !.occupancy_rate = 50 * RepScale,
        !.quality = 40 + quality_level * 15,
        !.popularity = 40 + quality_level * 10,
        !.room_rate = 5000 * quality_level]

\* Entertainment.__init__
NewEntertainment(type_name, size) ==
    [FacilityBase("Entertainment", 3000 * size, size) EXCEPT
        !.type_name = type_name, !.size = size, !.fee = 1000,
        !.quality = 50, !.popularity = 45 + size * 5]

\* Facility.get_daily_income of the four subclasses, in yen.
get_daily_income(f, total_guests) ==
    CASE f.kind = "Restaurant" ->
           ((total_guests * f.popularity) \div 200) * (1500 * f.price_tier)
      [] f.kind = "GiftShop" ->
           ((total_guests * f.popularity) \div 300) * (500 + f.quality * 10 + f.size * 500)
      [] f.kind = "Accommodation" ->
           ((f.rooms * f.occupancy_rate) \div (100 * RepScale)) * f.room_rate
      [] f.kind = "Entertainment" ->
           ((total_guests * f.popularity) \div 250) * f.fee
      [] OTHER -> 0

\* Accommodation.update_occupancy, in hundredths.
update_occupancy(f, resort_reputation, s) ==
    LET season_multiplier == [Spring |-> 11, Summer |-> 12, Autumn |-> 13, Winter |-> 14]
        base_occupancy2 == resort_reputation + f.quality * RepScale
    IN [f EXCEPT !.occupancy_rate =
            Min(100 * RepScale, (base_occupancy2 * season_multiplier[s]) \div 20)]

\* Facility.upgrade
upgrade(f, amount) ==
    [f EXCEPT !.quality = Min(100, f.quality + amount),
              !.popularity = f.popularity + amount \div 2]

\* ------------------------------------------------------------------ customers
\* The pool term of Customer.evaluate_resort for one pool, in hundredths.
PoolSatisfaction(pref, pool) ==
    LET temp == IF pref.min_temp <= pool.temperature /\ pool.temperature <= pref.max_temp
                THEN 20 * RepScale
                ELSE - (Min(Abs(pool.temperature - pref.min_temp),
                            Abs(pool.temperature - pref.max_temp)) * 5 * RepScale)
        cleanliness_diff == pref.cleanliness - pool.cleanliness
        cleanl == IF pool.cleanliness >= pref.cleanliness
                  THEN 15 * RepScale
                  ELSE - ((cleanliness_diff * cleanliness_diff * RepScale) \div 10)
        ingr == 10 * RepScale * Len(pool.ingredients)
    IN temp + cleanl + ingr

\* The price factor of Customer.evaluate_resort, in thousandths.
PriceFactor(p, fee) ==
    LET rp == reasonable_price[p]
        over == 1000 - ((fee - rp) * PERSONALITIES[p].price_sensitivity * 100) \div rp
    IN IF fee > rp
       THEN (IF fee > 2 * rp THEN over \div 2 ELSE over)
       ELSE IF 2 * fee < rp THEN 900 ELSE 1000

\* The facility bonus of Customer.evaluate_resort for one facility.
FacilityBonus(p, f) ==
    IF ~f.is_operational THEN -10
    ELSE 3 + (CASE p = "Luxury Enthusiast" /\ f.kind = "Accommodation" /\ f.quality_level >= 3 -> 5
                [] p = "Budget Traveler" /\ f.kind = "Restaurant" /\ f.price_tier = 1 -> 3
                [] p = "Health Conscious" /\ f.kind = "Entertainment"
                     /\ f.type_name \in {"Spa Treatment", "Massage"} -> 7
                [] p = "Traditional Purist" /\ f.kind = "Accommodation" /\ f.style = "Japanese" -> 5
                [] p = "Social Butterfly" /\ f.kind = "Entertainment"
                     /\ f.type_name \in {"Karaoke", "Game Room"} -> 6
                [] OTHER -> 0)

\* The pool part of evaluate_resort: the base 50 plus 40% of the average pool term.
PoolTerm(r, p) ==
    50 * RepScale
    + ((SumSeq([i \in 1..Len(r.pools) |-> PoolSatisfaction(PERSONALITIES[p], r.pools[i])])
           \div Len(r.pools)) * 4) \div 10

\* The staff skill part of evaluate_resort.
StaffTerm(r, p) ==
    LET staff_importance == IF p = "Luxury Enthusiast" THEN 15 ELSE 10
        avg_staff_skill == get_average_skill(r.staff)
        wanted == PERSONALITIES[p].staff_skill * RepScale
    IN IF avg_staff_skill >= wanted
       THEN (15 * RepScale * staff_importance) \div 10
       ELSE - (((wanted - avg_staff_skill) * 3 * staff_importance) \div 100)

\* self.satisfaction *= max(0.1, price_factor)
PriceScaled(satisfaction, p, fee) ==
    (satisfaction * Max(100, PriceFactor(p, fee))) \div 1000

\* The facilities part of evaluate_resort, capped at +25.
FacilityTerm(r, p) ==
    IF r.facilities # <<>>
    THEN Min(25 * RepScale,
             (SumSeq([i \in 1..Len(r.facilities) |-> FacilityBonus(p, r.facilities[i])])
                 * PERSONALITIES[p].facility_importance * RepScale) \div 10)
    ELSE 0

\* The weather and boredom parts of evaluate_resort.
WeatherTerm(r) == (get_guest_impact(r.weather) - 100) * 10

BoredomTerm(r) == IF r.boredom_factor > 0 THEN r.boredom_factor * 50 ELSE 0

Clamp(x) == Max(0, Min(100 * RepScale, x))

\* Customer.evaluate_resort: the satisfaction of personality p, in hundredths.
evaluate_resort(r, p) ==
    IF r.pools = <<>> THEN 10 * RepScale
    ELSE Clamp(PriceScaled(PoolTerm(r, p) + StaffTerm(r, p), p, r.entry_fee)
               + FacilityTerm(r, p) + WeatherTerm(r) - BoredomTerm(r))

\* The price-sensitivity-adjusted threshold of Customer.will_visit, in yen.
FeeThreshold(p) ==
    (max_acceptable_fee[p] * (20 - PERSONALITIES[p].price_sensitivity)) \div 10

\* Fault variant of will_visit: no fee is refused outright, the visit draw
\* decides at every price.
will_visit_at_any_price(r, p, lucky) == lucky

\* Customer.will_visit: lucky is the outcome of the final random.random() <
\* visit_chance comparison (either outcome is possible whenever it is drawn).
will_visit(r, p, lucky) ==
    IF r.entry_fee > FeeThreshold(p)
    THEN (IF r.entry_fee > 2 * FeeThreshold(p) THEN FALSE ELSE lucky)
    ELSE lucky

\* The satisfaction a Customer object carries after will_visit: the base 50
\* of __init__ unless the decision went through evaluate_resort.
SatisfactionAfterDecision(r, p) ==
    IF r.entry_fee > FeeThreshold(p) THEN 50 * RepScale ELSE evaluate_resort(r, p)

\* Customer.get_feedback: the index of the chosen text, pick in 0..1.
get_feedback(satisfaction, pick) ==
    IF satisfaction >= 80 * RepScale THEN pick
    ELSE IF satisfaction >= 50 * RepScale THEN 2
    ELSE 3 + pick


\* ------------------------------------------------------------------ the engine
LogEntry(d, kind, name) == [day |-> d, kind |-> kind, name |-> name]

\* The potential-visitor pool size of _calculate_guests.
PotentialVisitors(r) ==
    LET season_multiplier == [Winter |-> 15, Autumn |-> 12, Spring |-> 10, Summer |-> 7]
        base == (r.reputation * 2 * season_multiplier[r.season]) \div (10 * RepScale)
        active == Cardinality({i \in 1..Len(r.active_campaigns) :
                                  r.campaigns[r.active_campaigns[i]].active})
        boosted == (base * (10 + 2 * active)) \div 10
        bored == IF r.boredom_factor > 0
                 THEN (boosted * (100 - r.boredom_factor)) \div 100
                 ELSE boosted
        non_operational == Cardinality({i \in 1..Len(r.facilities) :
                                           ~r.facilities[i].is_operational})
    IN IF non_operational > 0 /\ r.facilities # <<>>
       THEN (bored * (2 * Len(r.facilities) - non_operational)) \div (2 * Len(r.facilities))
       ELSE bored

\* The personalities random.choice can draw in _calculate_guests.
CustomerTypes(s) == PersonalityNames

Truncate(l, n) == SubSeq(l, 1, Min(Len(l), n))

\* The customers of l that will_visit lets in, with the satisfaction they carry.
Visiting(r, l) ==
    LET decided == Filter(l, [i \in 1..Len(l) |-> will_visit(r, l[i], TRUE)])
    IN [i \in 1..Len(decided) |->
          [personality |-> decided[i],
           satisfaction |-> SatisfactionAfterDecision(r, decided[i])]]

\* actual_visitors of _calculate_guests, after the low-reputation override.
ActualVisitors(r, g) ==
    IF r.reputation < 30 * RepScale /\ g.lowrep THEN <<>>
    ELSE Visiting(r, Truncate(g.lucky, PotentialVisitors(r)))

\* Fault variant of Feedback: every visitor is asked, not a sample of five.
FeedbackOfEveryVisitor(visitors, g) ==
    LET n == Len(visitors)
        feedback_sample == Filter(g.sample, [k \in 1..Len(g.sample) |-> g.sample[k] <= n])
    IN [k \in 1..n |->
          [personality |-> visitors[feedback_sample[k]].personality,
           satisfaction |-> visitors[feedback_sample[k]].satisfaction,
           feedback |-> get_feedback(visitors[feedback_sample[k]].satisfaction,
                                     g.pick[Min(k, Len(g.pick))])]]

\* The feedback sample of _calculate_guests.
Feedback(visitors, g) ==
    LET n == Len(visitors)
        feedback_sample == Filter(g.sample, [k \in 1..Len(g.sample) |-> g.sample[k] <= n])
    IN [k \in 1..Min(5, n) |->
          [personality |-> visitors[feedback_sample[k]].personality,
           satisfaction |-> visitors[feedback_sample[k]].satisfaction,
           feedback |-> get_feedback(visitors[feedback_sample[k]].satisfaction, g.pick[k])]]

StoreVisitors(r, visitors, g) ==
    [r EXCEPT !.daily_visitors = visitors,
              !.guests = Len(visitors),
              !.customer_feedback = IF Len(visitors) > 0 THEN Feedback(visitors, g) ELSE <<>>]

\* Fault variant of calculate_guests: customers are drawn without looking
\* whether there is a pool.
calculate_guests_without_pool_check(r, g) == StoreVisitors(r, ActualVisitors(r, g), g)

\* OnsenResort._calculate_guests.  g.lucky is the sequence of personalities of
\* the potential customers whose final visit draw succeeds (all others are
\* turned away by their draw), g.lowrep the 80% low-reputation draw, g.sample
\* a permutation whose restriction to the visitors is the order random.sample
\* returns, and g.pick the feedback text draws.
calculate_guests(r, g) ==
    IF r.pools = <<>>
    THEN [r EXCEPT !.daily_visitors = <<>>, !.guests = 0, !.customer_feedback = <<>>]
    ELSE StoreVisitors(r, ActualVisitors(r, g), g)

\* OnsenResort._count_staff_for_facility
count_staff_for_facility(r, f) ==
    LET applicable_roles ==
            CASE f.kind = "Restaurant" -> {"Chef", "Server"}
              [] f.kind = "GiftShop" -> {"Attendant"}
              [] f.kind = "Accommodation" -> {"Receptionist", "Attendant", "Cleaner"}
              [] f.kind = "Entertainment" -> {"Attendant"}
              [] OTHER -> {}
    IN Cardinality({i \in 1..Len(r.staff) : r.staff[i].role \in applicable_roles})

\* Fault variant of OperationalEfficiency: an understaffed facility earns in
\* proportion to its staff, without the 0.5 base.
OperationalEfficiencyProportional(staff_count, required_staff) ==
    IF staff_count = 0 THEN [num |-> 1, den |-> 5]
    ELSE IF staff_count < required_staff
         THEN [num |-> staff_count, den |-> required_staff]
         ELSE [num |-> 1, den |-> 1]

\* The operational efficiency of _calculate_finances as a fraction.
OperationalEfficiency(staff_count, required_staff) ==
    IF staff_count = 0 THEN [num |-> 1, den |-> 5]
    ELSE IF staff_count < required_staff
         THEN [num |-> required_staff + staff_count, den |-> 2 * required_staff]
         ELSE [num |-> 1, den |-> 1]

\* The facility loop of _calculate_finances: acc = [income, expenses, facilities].
RECURSIVE FacilityFinances(_, _, _)
FacilityFinances(r, acc, i) ==
    IF i > Len(r.facilities) THEN acc
    ELSE LET f == r.facilities[i]
             staff_count == count_staff_for_facility(r, f)
             eff == OperationalEfficiency(staff_count, f.staff_required)
             facility_income == (Yen(get_daily_income(f, r.guests)) * eff.num) \div eff.den
         IN FacilityFinances(r,
               [income |-> acc.income + facility_income,
                expenses |-> acc.expenses + Yen(f.maintenance_cost),
                facilities |-> [acc.facilities EXCEPT ![i].is_operational = (staff_count # 0)]],
               i + 1)

\* Fault variant of HandleUnpaid: only the draw decides who leaves, a member
\* whose happiness fell to 0 or below can stay.
RECURSIVE HandleUnpaidDrawOnly(_, _, _, _, _, _)
HandleUnpaidDrawOnly(st, copy, i, gone, quit, d) ==
    IF i > Len(copy) THEN st
    ELSE LET member == [copy[i] EXCEPT !.happiness = copy[i].happiness - 30]
             pos == i - gone
             roster == IF quit[i]
                       THEN SubSeq(st.staff, 1, pos - 1) \o SubSeq(st.staff, pos + 1, Len(st.staff))
                       ELSE [st.staff EXCEPT ![pos] = member]
             log == IF quit[i]
                    THEN Append(st.event_log, LogEntry(d, "unpaid", member.name))
                    ELSE st.event_log
         IN HandleUnpaidDrawOnly([staff |-> roster, event_log |-> log], copy, i + 1,
                                 IF quit[i] THEN gone + 1 ELSE gone, quit, d)

\* OnsenResort._handle_unpaid_staff: the loop over a copy of the roster.
\* i is the position in the copy, gone the number of members already removed
\* (so the member sits at i - gone in the live roster), quit[i] its 50% draw;
\* st = [staff, event_log].
RECURSIVE HandleUnpaid(_, _, _, _, _, _)
HandleUnpaid(st, copy, i, gone, quit, d) ==
    IF i > Len(copy) THEN st
    ELSE LET member == [copy[i] EXCEPT !.happiness = copy[i].happiness - 30]
             leaves == member.happiness <= 0 \/ quit[i]
             pos == i - gone
             roster == IF leaves
                       THEN SubSeq(st.staff, 1, pos - 1) \o SubSeq(st.staff, pos + 1, Len(st.staff))
                       ELSE [st.staff EXCEPT ![pos] = member]
             log == IF leaves
                    THEN Append(st.event_log, LogEntry(d, "unpaid", member.name))
                    ELSE st.event_log
         IN HandleUnpaid([staff |-> roster, event_log |-> log], copy, i + 1,
                         IF leaves THEN gone + 1 ELSE gone, quit, d)

\* Fault variant of handle_unpaid_staff: the departures are not logged.
handle_unpaid_staff_unlogged(r, quit) ==
    [r EXCEPT !.staff = HandleUnpaid([staff |-> r.staff, event_log |-> r.event_log],
                                     r.staff, 1, 0, quit, r.day).staff]

\* OnsenResort._handle_unpaid_staff
handle_unpaid_staff(r, quit) ==
    LET st == HandleUnpaid([staff |-> r.staff, event_log |-> r.event_log],
                           r.staff, 1, 0, quit, r.day)
    IN [r EXCEPT !.staff = st.staff, !.event_log = st.event_log]

\* Income from entry fees with the promotions applied.
EntryIncome(r) ==
    r.guests * ((r.entry_fee * get_entry_fee_multiplier(r) * MoneyScale) \div MultScale)

\* Base operating cost, land rent and the pools' daily costs.
BaseExpenses(r) ==
    Yen(8000) + Yen(15000)
    + SumSeq([i \in 1..Len(r.pools) |-> Yen(get_daily_cost(r.pools[i]))])

BookDay(r, fac, staff_salaries) ==
    [r EXCEPT !.daily_income = fac.income,
              !.daily_expenses = fac.expenses + staff_salaries,
              !.facilities = fac.facilities]

\* Fault variant of PayStaff: money equal to the salaries counts as unpaid.
PayStaffUnlessAbove(r, staff_salaries, quit) ==
    IF r.money <= staff_salaries THEN handle_unpaid_staff(r, quit) ELSE r

PayStaff(r, staff_salaries, quit) ==
    IF r.money < staff_salaries THEN handle_unpaid_staff(r, quit) ELSE r

\* Fault variant of UpdateMoney: the expenses are not deducted.
UpdateMoneyIncomeOnly(r) == [r EXCEPT !.money = r.money + r.daily_income]

UpdateMoney(r) == [r EXCEPT !.money = r.money + (r.daily_income - r.daily_expenses)]

\* Fault variant of calculate_finances: the salaries are charged for the
\* roster that remains after the unpaid members have left.
calculate_finances_of_remaining_roster(r, quit) ==
    LET fac == FacilityFinances(r, [income |-> EntryIncome(r),
                                    expenses |-> BaseExpenses(r),
                                    facilities |-> r.facilities], 1)
        due == get_total_salary(r.staff)
        paid == PayStaff(BookDay(r, fac, due), due, quit)
    IN UpdateMoney([paid EXCEPT !.daily_expenses = fac.expenses + get_total_salary(paid.staff)])

\* OnsenResort._calculate_finances
calculate_finances(r, quit) ==
    UpdateMoney(
        PayStaff(
            BookDay(r,
                    FacilityFinances(r, [income |-> EntryIncome(r),
                                         expenses |-> BaseExpenses(r),
                                         facilities |-> r.facilities], 1),
                    get_total_salary(r.staff)),
            get_total_salary(r.staff), quit))

\* Fault variant of update_reputation: the decay does not wait for visitors.
update_reputation_decay_first(r) ==
    IF r.daily_visitors = <<>>
    THEN [r EXCEPT !.reputation = IF r.reputation > 50 * RepScale
                                  THEN r.reputation - RepScale \div 2
                                  ELSE r.reputation]
    ELSE LET total_satisfaction ==
                 SumSeq([i \in 1..Len(r.daily_visitors) |-> r.daily_visitors[i].satisfaction])
             avg_satisfaction == total_satisfaction \div Len(r.daily_visitors)
             reputation_change == (avg_satisfaction - 50 * RepScale) \div 8
             rep == Max(0, Min(100 * RepScale, r.reputation + reputation_change))
         IN [r EXCEPT !.reputation = IF rep > 50 * RepScale THEN rep - RepScale \div 2 ELSE rep]

\* OnsenResort._update_reputation
\* Fault variant of update_reputation: the satisfaction-based change alone,
\* without the 0.5 decay above 50.
update_reputation_without_decay(r) ==
    IF r.daily_visitors = <<>> THEN r
    ELSE LET total_satisfaction ==
                 SumSeq([i \in 1..Len(r.daily_visitors) |-> r.daily_visitors[i].satisfaction])
             avg_satisfaction == total_satisfaction \div Len(r.daily_visitors)
             reputation_change == (avg_satisfaction - 50 * RepScale) \div 8
         IN [r EXCEPT !.reputation =
                 Max(0, Min(100 * RepScale, r.reputation + reputation_change))]

update_reputation(r) ==
    IF r.daily_visitors = <<>> THEN r
    ELSE LET total_satisfaction ==
                 SumSeq([i \in 1..Len(r.daily_visitors) |-> r.daily_visitors[i].satisfaction])
             avg_satisfaction == total_satisfaction \div Len(r.daily_visitors)
             reputation_change == (avg_satisfaction - 50 * RepScale) \div 8
             rep == Max(0, Min(100 * RepScale, r.reputation + reputation_change))
         IN [r EXCEPT !.reputation = IF rep > 50 * RepScale THEN rep - RepScale \div 2 ELSE rep]


\* ------------------------------------------------------------------ events
\* EventManager._improve_pools
improve_pools(r) ==
    [r EXCEPT !.pools = [i \in 1..Len(r.pools) |->
                           [r.pools[i] EXCEPT !.popularity = Min(100, r.pools[i].popularity + 5)]]]

\* EventManager._plumbing_issue: e.repair in 5000..20000, e.pool the chosen pool.
plumbing_issue(r, e) ==
    LET r1 == [r EXCEPT !.money = r.money - Yen(e.repair)]
    IN IF r.pools # <<>>
       THEN [r1 EXCEPT !.pools[e.pool].cleanliness = Max(0, r.pools[e.pool].cleanliness - 30)]
       ELSE r1

\* EventManager._staff_conflict: the loop header reads resort.staff, an
\* attribute OnsenResort does not have (the roster is resort.staff_manager.staff),
\* so the call raises AttributeError before any happiness is changed.
staff_conflict(r) == [r EXCEPT !.pc = "raised"]

\* EventManager._blogger_review: e.blogger in 5..10.
blogger_review(r, e) ==
    LET positive_count ==
            (IF Len(r.pools) > 0 THEN 1 ELSE 0)
          + (IF Len(r.facilities) > 0 THEN 1 ELSE 0)
          + (IF r.reputation > 50 * RepScale THEN 1 ELSE 0)
          + (IF \E i \in 1..Len(r.pools) : r.pools[i].cleanliness > 70 THEN 1 ELSE 0)
    IN IF positive_count >= 3
       THEN [r EXCEPT !.reputation = Min(100 * RepScale, r.reputation + e.blogger * RepScale)]
       ELSE IF positive_count <= 1
            THEN [r EXCEPT !.reputation = Max(0, r.reputation - e.blogger * RepScale)]
            ELSE r

\* Event.apply for the event named e.name.
ApplyEvent(r, e) ==
    CASE e.name = "Celebrity Visit" ->
           [r EXCEPT !.reputation = Min(100 * RepScale, r.reputation + 10 * RepScale)]
      [] e.name = "Travel Magazine Feature" ->
           [r EXCEPT !.reputation = Min(100 * RepScale, r.reputation + 15 * RepScale)]
      [] e.name = "Local Festival" ->
           [r EXCEPT !.guests = (r.guests * 15) \div 10]
      [] e.name = "Hot Spring Quality Improved" -> improve_pools(r)
      [] e.name = "Plumbing Issue" -> plumbing_issue(r, e)
      [] e.name = "Health Inspection" -> [r EXCEPT !.money = r.money - Yen(10000)]
      [] e.name = "Staff Conflict" -> staff_conflict(r)
      [] e.name = "Competing Onsen Opened" ->
           [r EXCEPT !.reputation = Max(0, r.reputation - 5 * RepScale)]
      [] e.name = "Travel Blogger Visit" -> blogger_review(r, e)
      [] e.name = "Weather Phenomenon" -> r
      [] OTHER -> r

\* The log append of new_day for a triggered event; a raise skips it.
LogEvent(r, e) ==
    IF r.pc = "raised" THEN r
    ELSE [r EXCEPT !.event_log = Append(r.event_log, LogEntry(r.day, "event", e.name))]

\* EventManager.trigger_random_event followed by new_day's log append;
\* e.name = "None" when the 20% draw fails.
trigger_random_event(r, e) ==
    IF e.name = "None" THEN r ELSE LogEvent(ApplyEvent(r, e), e)

\* ------------------------------------------------------------------ new_day
\* Fault variant of AdvanceCalendar: the season check reads the day before
\* the increment.
AdvanceCalendarStaleDay(r) ==
    [r EXCEPT !.day = r.day + 1,
              !.season = IF r.day % 90 = 0
                         THEN seasons[(SeasonIndex(r.season) % 4) + 1]
                         ELSE r.season]

\* Step 1 of new_day: the day counter and the season.
AdvanceCalendar(r) ==
    LET d == r.day + 1
    IN [r EXCEPT !.day = d,
                 !.season = IF d % 90 = 0
                            THEN seasons[(SeasonIndex(r.season) % 4) + 1]
                            ELSE r.season]

\* The reset of the daily statistics.
ResetDaily(r) ==
    [r EXCEPT !.daily_income = 0, !.daily_expenses = 0, !.guests = 0,
              !.customer_feedback = <<>>, !.daily_visitors = <<>>]

\* The boredom update of new_day.
\* Fault variant of UpdateBoredom: the days are counted from the opening of
\* the resort, whatever has been built since.
UpdateBoredomSinceOpening(r) ==
    LET days_since_upgrade == r.day - 1
        b == Min(30, (days_since_upgrade - 30) \div 10)
    IN IF days_since_upgrade > 30
       THEN [r EXCEPT !.boredom_factor = b,
                      !.event_log = IF b > 0 /\ b % 5 = 0
                                    THEN Append(r.event_log, LogEntry(r.day, "bored", ""))
                                    ELSE r.event_log]
       ELSE r

UpdateBoredom(r) ==
    LET days_since_upgrade == r.day - r.last_upgrade_day
        b == Min(30, (days_since_upgrade - 30) \div 10)
    IN IF days_since_upgrade > 30
       THEN [r EXCEPT !.boredom_factor = b,
                      !.event_log = IF b > 0 /\ b % 5 = 0
                                    THEN Append(r.event_log, LogEntry(r.day, "bored", ""))
                                    ELSE r.event_log]
       ELSE r

\* The inner cleaner loop of the pool update: every pool is restored.
RestoreAll(ps, amount) ==
    [j \in 1..Len(ps) |-> [ps[j] EXCEPT !.cleanliness = Min(100, ps[j].cleanliness + amount)]]

\* The cleaner part of one iteration of the pool update loop.
CleanerPass(ps, roster) ==
    LET cleaners == get_staff_by_role(roster, "Cleaner")
        skill_sum == SumSeq([k \in 1..Len(cleaners) |-> cleaners[k].skill_level])
    IN IF cleaners # <<>>
       THEN RestoreAll(ps, (5 * skill_sum) \div Len(cleaners))
       ELSE ps

\* The pool update loop of new_day: pool i decays by decay[i] and then, when
\* cleaners are employed, the inner loop runs over all pools.
RECURSIVE UpdatePools(_, _, _, _)
UpdatePools(ps, roster, decay, i) ==
    IF i > Len(ps) THEN ps
    ELSE UpdatePools(
            CleanerPass([ps EXCEPT ![i].cleanliness = Max(0, ps[i].cleanliness - decay[i])],
                        roster),
            roster, decay, i + 1)

PoolsStep(r, decay) == [r EXCEPT !.pools = UpdatePools(r.pools, r.staff, decay, 1)]

\* The accommodation loop of new_day.
UpdateAccommodations(r) ==
    [r EXCEPT !.facilities =
        [i \in 1..Len(r.facilities) |->
           IF r.facilities[i].kind = "Accommodation"
           THEN update_occupancy(r.facilities[i], r.reputation, r.season)
           ELSE r.facilities[i]]]

\* Fault variant of AutoClean: a pool at exactly 70 is topped up as well.
AutoCleanUpToSeventy(r) ==
    [r EXCEPT !.pools =
        [i \in 1..Len(r.pools) |->
           IF r.pools[i].cleanliness <= 70
           THEN [r.pools[i] EXCEPT !.cleanliness = Min(100, r.pools[i].cleanliness + 20)]
           ELSE r.pools[i]]]

\* The automatic daily maintenance of new_day.
AutoClean(r) ==
    [r EXCEPT !.pools =
        [i \in 1..Len(r.pools) |->
           IF r.pools[i].cleanliness < 70
           THEN [r.pools[i] EXCEPT !.cleanliness = Min(100, r.pools[i].cleanliness + 20)]
           ELSE r.pools[i]]]

WeatherStep(r, d) ==
    [r EXCEPT !.weather = WeatherUpdate(r.weather, r.season, d.variation, d.condition)]

StaffStep(r, work) == [r EXCEPT !.staff = work_day(r.staff, work)]

\* Fault variant of DayToReputation: the guests are generated against the
\* staffing of the moment, the flags being refreshed before they are read.
DayToReputationOfCurrentStaffing(r, d) ==
    LET bored == UpdateBoredom(
                   update_daily(
                     StaffStep(ResetDaily(WeatherStep(AdvanceCalendar(r), d)), d.work),
                     d.viral))
        staffed == [bored EXCEPT !.facilities =
                      [i \in 1..Len(bored.facilities) |->
                         [bored.facilities[i] EXCEPT !.is_operational =
                             count_staff_for_facility(bored, bored.facilities[i]) # 0]]]
    IN update_reputation(calculate_finances(calculate_guests(staffed, d.guests), d.quit))

\* The first half of new_day, up to the reputation update.
DayToReputation(r, d) ==
    update_reputation(
      calculate_finances(
        calculate_guests(
          UpdateBoredom(
            update_daily(
              StaffStep(ResetDaily(WeatherStep(AdvanceCalendar(r), d)), d.work),
              d.viral)),
          d.guests),
        d.quit))

\* The steps of new_day after the event step; a raise in the event step
\* leaves them undone.
DayAfterEvent(r, d) ==
    IF r.pc = "raised" THEN r
    ELSE AutoClean(UpdateAccommodations(PoolsStep(r, d.decay)))

\* OnsenResort.new_day under the draws d.
new_day(r, d) == DayAfterEvent(trigger_random_event(DayToReputation(r, d), d.event), d)

\* ------------------------------------------------------------------ random draws
\* The draws one day advance consumes, enumerated from the sets of cfg.
SampleOrders(n) == {f \in [1..n -> 1..n] : \A i, j \in 1..n : f[i] = f[j] => i = j}

Identity(n) == [i \in 1..n |-> i]

Reversed(n) == [i \in 1..n |-> n + 1 - i]

GuestDraws(cfg) ==
    UNION {{[lucky |-> l, lowrep |-> lr, sample |-> sm, pick |-> pk] :
               lr \in (IF reputation < 30 * RepScale THEN cfg.lowrep ELSE {FALSE}),
               sm \in (IF cfg.shuffle THEN SampleOrders(Len(l))
                       ELSE IF cfg.reversed THEN {Identity(Len(l)), Reversed(Len(l))}
                       ELSE {Identity(Len(l))}),
               pk \in [1..Min(5, Len(l)) -> cfg.pick]} :
           l \in (IF pools = <<>> /\ ~cfg.knock THEN {<<>>}
                  ELSE SeqUpTo(cfg.personalities, MaxVisitors)
                          \cup [1..cfg.crowd -> cfg.personalities])}

NoEvent == [name |-> "None", repair |-> 0, pool |-> 1, blogger |-> 0]

EventDraws(cfg) ==
    {NoEvent}
    \cup {[NoEvent EXCEPT !.name = n] :
            n \in cfg.events \ {"Plumbing Issue", "Travel Blogger Visit"}}
    \cup {[NoEvent EXCEPT !.name = "Plumbing Issue", !.repair = rp, !.pool = pl] :
            rp \in (IF "Plumbing Issue" \in cfg.events THEN cfg.repair ELSE {}),
            pl \in 1..Max(1, Len(pools))}
    \cup {[NoEvent EXCEPT !.name = "Travel Blogger Visit", !.blogger = b] :
            b \in (IF "Travel Blogger Visit" \in cfg.events THEN cfg.blogger ELSE {})}

WorkDraws(cfg) ==
    {[decay |-> dc, skillup |-> su, mood |-> m] :
        dc \in cfg.worn, su \in cfg.skillup, m \in cfg.mood}

Draws(cfg) ==
    {[variation |-> v, condition |-> c, work |-> w, viral |-> vi, guests |-> g,
      quit |-> q, event |-> e, decay |-> dc] :
        v \in cfg.variation,
        c \in cfg.condition \cap weather_chances[AdvanceCalendar(Resort).season],
        w \in [1..Len(staff) -> WorkDraws(cfg)],
        vi \in [1..Len(active_campaigns) -> cfg.viral],
        g \in GuestDraws(cfg),
        q \in (IF money < SumSeq([i \in 1..Len(staff) |->
                                   Max(staff[i].salary,
                                       calculate_salary(staff[i].role, staff[i].skill_level + 1))])
               THEN [1..Len(staff) -> cfg.quit]
               ELSE {[i \in 1..Len(staff) |-> FALSE]}),
        e \in EventDraws(cfg),
        dc \in [1..Len(pools) -> cfg.decay]}

\* ------------------------------------------------------------------ actions
\* main_menu choice 6 (or the empty input): one day advance.
NewDay(cfg, lastDay) ==
    /\ pc = "idle"
    /\ day < lastDay
    /\ \E d \in Draws(cfg) : Commit(new_day(Resort, d))

\* manage_pools choice 1: build a pool.
BuildPool(size, temperature) ==
    LET new_pool == NewPool(size, temperature)
    IN /\ pc = "idle"
       /\ Len(pools) < MaxPools
       /\ 20 <= temperature /\ temperature <= 50
       /\ ~(money < Yen(new_pool.construction_cost))
       /\ money' = money - Yen(new_pool.construction_cost)
       /\ pools' = Append(pools, new_pool)
       /\ last_upgrade_day' = day
       /\ boredom_factor' = 0
       /\ UNCHANGED <<day, season, reputation, entry_fee, facilities, staff, weather,
                      campaigns, active_campaigns, promotions, active_promotions,
                      guests, daily_income, daily_expenses, daily_visitors,
                      customer_feedback, event_log, pc>>

\* manage_pools choice 4: clean a pool.
CleanPool(i) ==
    LET cleaning_cost == CASE pools[i].size = "Small" -> 2000
                           [] pools[i].size = "Medium" -> 4000
                           [] pools[i].size = "Large" -> 8000
    IN /\ pc = "idle"
       /\ i \in 1..Len(pools)
       /\ ~(money < Yen(cleaning_cost))
       /\ money' = money - Yen(cleaning_cost)
       /\ pools' = [pools EXCEPT ![i] = clean(pools[i])]
       /\ UNCHANGED <<day, season, reputation, entry_fee, facilities, staff, weather,
                      campaigns, active_campaigns, promotions, active_promotions,
                      guests, daily_income, daily_expenses, daily_visitors,
                      customer_feedback, event_log, last_upgrade_day, boredom_factor, pc>>

\* manage_staff choice 1: hire a candidate (StaffManager.hire); the candidate
\* lists are random, so any name, role and skill 1..5 can be on offer.
Hire(name, role, skill_level) ==
    /\ pc = "idle"
    /\ Len(staff) < MaxStaff
    /\ skill_level \in 1..5
    /\ staff' = Append(staff, NewStaff(name, role, skill_level))
    /\ UNCHANGED <<day, season, money, reputation, entry_fee, pools, facilities, weather,
                   campaigns, active_campaigns, promotions, active_promotions,
                   guests, daily_income, daily_expenses, daily_visitors,
                   customer_feedback, event_log, last_upgrade_day, boredom_factor, pc>>

\* manage_staff choice 3: fire a staff member (StaffManager.fire).
Fire(i) ==
    /\ pc = "idle"
    /\ i \in 1..Len(staff)
    /\ staff' = [k \in 1..(Len(staff) - 1) |-> IF k < i THEN staff[k] ELSE staff[k + 1]]
    /\ UNCHANGED <<day, season, money, reputation, entry_fee, pools, facilities, weather,
                   campaigns, active_campaigns, promotions, active_promotions,
                   guests, daily_income, daily_expenses, daily_visitors,
                   customer_feedback, event_log, last_upgrade_day, boredom_factor, pc>>

\* manage_staff bonus choice 1: a bonus to one staff member.
GiveBonus(i, bonus_amount) ==
    /\ pc = "idle"
    /\ i \in 1..Len(staff)
    /\ bonus_amount > 0
    /\ ~(money < Yen(bonus_amount))
    /\ money' = money - Yen(bonus_amount)
    /\ staff' = [staff EXCEPT ![i] = give_bonus(staff[i], bonus_amount)]
    /\ UNCHANGED <<day, season, reputation, entry_fee, pools, facilities, weather,
                   campaigns, active_campaigns, promotions, active_promotions,
                   guests, daily_income, daily_expenses, daily_visitors,
                   customer_feedback, event_log, last_upgrade_day, boredom_factor, pc>>

\* Fault variant of GiveBonusAll: the funds are tested against one member's
\* bonus, not against the total.
GiveBonusAllTestingOneBonus(bonus_amount) ==
    /\ pc = "idle"
    /\ staff # <<>>
    /\ bonus_amount > 0
    /\ ~(money < Yen(bonus_amount))
    /\ money' = money - Yen(bonus_amount * Len(staff))
    /\ staff' = [i \in 1..Len(staff) |-> give_bonus(staff[i], bonus_amount)]
    /\ UNCHANGED <<day, season, reputation, entry_fee, pools, facilities, weather,
                   campaigns, active_campaigns, promotions, active_promotions,
                   guests, daily_income, daily_expenses, daily_visitors,
                   customer_feedback, event_log, last_upgrade_day, boredom_factor, pc>>

\* manage_staff bonus choice 2: the same bonus to every staff member.
GiveBonusAll(bonus_amount) ==
    LET total_bonus == bonus_amount * Len(staff)
    IN /\ pc = "idle"
       /\ staff # <<>>
       /\ bonus_amount > 0
       /\ ~(money < Yen(total_bonus))
       /\ money' = money - Yen(total_bonus)
       /\ staff' = [i \in 1..Len(staff) |-> give_bonus(staff[i], bonus_amount)]
       /\ UNCHANGED <<day, season, reputation, entry_fee, pools, facilities, weather,
                      campaigns, active_campaigns, promotions, active_promotions,
                      guests, daily_income, daily_expenses, daily_visitors,
                      customer_feedback, event_log, last_upgrade_day, boredom_factor, pc>>

\* main_menu choice 4: set the entry fee.
SetEntryFee(new_fee) ==
    /\ pc = "idle"
    /\ new_fee >= 0
    /\ new_fee # entry_fee
    /\ entry_fee' = new_fee
    /\ UNCHANGED <<day, season, money, reputation, pools, facilities, staff, weather,
                   campaigns, active_campaigns, promotions, active_promotions,
                   guests, daily_income, daily_expenses, daily_visitors,
                   customer_feedback, event_log, last_upgrade_day, boredom_factor, pc>>

\* manage_marketing choice 2: MarketingManager.start_promotion behind the
\* command's already-active check.
StartPromotion(p) ==
    /\ pc = "idle"
    /\ p \in 1..Len(Promotions)
    /\ ~(\E k \in 1..Len(active_promotions) :
            Promotions[active_promotions[k]].name = Promotions[p].name)
    /\ promotions' = [promotions EXCEPT ![p] =
                         [active |-> TRUE, days_remaining |-> Promotions[p].duration]]
    /\ active_promotions' = Append(active_promotions, p)
    /\ UNCHANGED <<day, season, money, reputation, entry_fee, pools, facilities, staff,
                   weather, campaigns, active_campaigns,
                   guests, daily_income, daily_expenses, daily_visitors,
                   customer_feedback, event_log, last_upgrade_day, boredom_factor, pc>>

\* manage_marketing choice 1: MarketingManager.start_campaign behind the
\* command's already-active and funds checks.
StartCampaign(c) ==
    /\ pc = "idle"
    /\ c \in 1..Len(Campaigns)
    /\ ~(\E k \in 1..Len(active_campaigns) :
            Campaigns[active_campaigns[k]].name = Campaigns[c].name)
    /\ ~(money < Yen(Campaigns[c].cost))
    /\ money' = money - Yen(Campaigns[c].cost)
    /\ campaigns' = [campaigns EXCEPT ![c] =
                        [active |-> TRUE, days_remaining |-> Campaigns[c].duration]]
    /\ active_campaigns' = Append(active_campaigns, c)
    /\ UNCHANGED <<day, season, reputation, entry_fee, pools, facilities, staff,
                   weather, promotions, active_promotions,
                   guests, daily_income, daily_expenses, daily_visitors,
                   customer_feedback, event_log, last_upgrade_day, boredom_factor, pc>>

\* manage_pools choice 3: add an ingredient the pool does not have yet.
AddIngredient(i, k) ==
    /\ pc = "idle"
    /\ i \in 1..Len(pools)
    /\ k \in 1..Len(Ingredients)
    /\ ~(\E j \in 1..Len(pools[i].ingredients) :
            Ingredients[pools[i].ingredients[j]].name = Ingredients[k].name)
    /\ pools' = [pools EXCEPT ![i] = add_ingredient(pools[i], k)]
    /\ UNCHANGED <<day, season, money, reputation, entry_fee, facilities, staff, weather,
                   campaigns, active_campaigns, promotions, active_promotions,
                   guests, daily_income, daily_expenses, daily_visitors,
                   customer_feedback, event_log, last_upgrade_day, boredom_factor, pc>>

\* The construction cost manage_facilities charges for facility f, in yen.
construction_cost(f) ==
    CASE f.kind = "Restaurant" -> 200000 * f.price_tier
      [] f.kind = "GiftShop" -> 100000 * f.size
      [] f.kind = "Accommodation" -> 500000 + f.rooms * 50000 * f.quality_level
      [] f.kind = "Entertainment" -> 150000 * f.size

\* manage_facilities choice 1: build a restaurant, a gift shop, an
\* accommodation or an entertainment facility.
BuildFacility(f) ==
    /\ pc = "idle"
    /\ Len(facilities) < MaxFacilities
    /\ ~(money < Yen(construction_cost(f)))
    /\ money' = money - Yen(construction_cost(f))
    /\ facilities' = Append(facilities, f)
    /\ UNCHANGED <<day, season, reputation, entry_fee, pools, staff, weather,
                   campaigns, active_campaigns, promotions, active_promotions,
                   guests, daily_income, daily_expenses, daily_visitors,
                   customer_feedback, event_log, last_upgrade_day, boredom_factor, pc>>

\* manage_facilities choice 3: upgrade a facility by 10 quality points.
UpgradeFacility(i) ==
    LET upgrade_cost == 10000 * (facilities[i].quality \div 10)
    IN /\ pc = "idle"
       /\ i \in 1..Len(facilities)
       /\ ~(money < Yen(upgrade_cost))
       /\ money' = money - Yen(upgrade_cost)
       /\ facilities' = [facilities EXCEPT ![i] = upgrade(facilities[i], 10)]
       /\ last_upgrade_day' = day
       /\ boredom_factor' = 0
       /\ UNCHANGED <<day, season, reputation, entry_fee, pools, staff, weather,
                      campaigns, active_campaigns, promotions, active_promotions,
                      guests, daily_income, daily_expenses, daily_visitors,
                      customer_feedback, event_log, pc>>

\* A direct call event_manager.trigger_random_event(resort, chance=1.0), as
\* test_event_system makes it: the chance draw always succeeds, the chosen
\* event e is applied, and the triple is returned unless the effect raises.
TriggerRandomEvent(e) ==
    /\ pc = "idle"
    /\ e.name \in EventNames
    /\ Commit([ApplyEvent(Resort, e) EXCEPT
                  !.pc = IF ApplyEvent(Resort, e).pc = "raised" THEN "raised" ELSE "returned"])


\* ------------------------------------------------------------------ specifications
\* The draws every specification starts from: one value per draw.
QuietCfg ==
    [variation |-> {0}, condition |-> {"Clear"},
     worn |-> {1}, skillup |-> {TRUE}, mood |-> {0},
     viral |-> {0},
     personalities |-> {"Budget Traveler"},
     crowd |-> MaxVisitors,
     knock |-> FALSE, lowrep |-> {TRUE}, shuffle |-> FALSE, reversed |-> FALSE, pick |-> {0},
     quit |-> {TRUE},
     events |-> {}, repair |-> {5000}, blogger |-> {5},
     decay |-> {15}]

\* Spec: the opening days of a game from the constructor, with pricing and
\* promotions, visitors and the events that change money or reputation.
GameCfg ==
    [QuietCfg EXCEPT
        !.events = {"Health Inspection", "Plumbing Issue", "Celebrity Visit"},
        !.repair = {20000}]

GameFees == {1000}

NewDayGame == NewDay(GameCfg, MaxDay)

BuildPoolGame == BuildPool("Small", 45)

SetEntryFeeGame == \E f \in GameFees : SetEntryFee(f)

StartPromotionGame == \E p \in {1, 2, 5} : StartPromotion(p)

Next ==
    \/ NewDayGame
    \/ BuildPoolGame
    \/ SetEntryFeeGame
    \/ StartPromotionGame

Spec == Init /\ [][Next]_vars

\* ------------------------------------------------------------------ properties of Spec
\* The event new_day logged for day d ("None" when none was triggered).
LoggedEvent(log, d) ==
    IF log # <<>> /\ log[Len(log)].kind = "event" /\ log[Len(log)].day = d
    THEN log[Len(log)].name
    ELSE "None"

\* What the day's steps outside the settlement took from money, in quarter yen.
OutsideSettlement == (daily_income' - daily_expenses') - (money' - money)

\* C5 as stated: over every day advance money changes by exactly the day's
\* daily_income - daily_expenses (the settlement alone changes money).
C5_SettlementOnly ==
    [][day' = day + 1 => money' - money = daily_income' - daily_expenses']_vars

\* C5 amended: over every day advance money changes by daily_income -
\* daily_expenses, less 10000 on a day whose event is the Health Inspection and
\* less the repair cost (5000 to 20000) on a day whose event is the Plumbing
\* Issue; on every other day the settlement alone changes money.
C5_SettlementAndEventCosts ==
    [][day' = day + 1 =>
         CASE LoggedEvent(event_log', day') = "Health Inspection" ->
                OutsideSettlement = Yen(10000)
           [] LoggedEvent(event_log', day') = "Plumbing Issue" ->
                Yen(5000) <= OutsideSettlement /\ OutsideSettlement <= Yen(20000)
           [] OTHER -> OutsideSettlement = 0]_vars

\* A day with visitors has been settled and then the inspection fined the resort.
C5_Witness ==
    /\ day > 1
    /\ LoggedEvent(event_log, day) = "Health Inspection"
    /\ daily_visitors # <<>>
    /\ daily_income > 0
    /\ money < Yen(75000)

\* What the event logged for the day does to a reputation value.
AfterLoggedEvent(rep, name) ==
    CASE name = "Celebrity Visit" -> Min(100 * RepScale, rep + 10 * RepScale)
      [] OTHER -> rep

\* C9 as stated: on a day without visitors the reputation update applies no
\* satisfaction change but still takes the 0.5 decay off a reputation above 50.
C9_DecayWithoutVisitors ==
    [][(day' = day + 1 /\ daily_visitors' = <<>> /\ active_campaigns = <<>>) =>
         reputation' = AfterLoggedEvent(IF reputation > 50 * RepScale
                                        THEN reputation - RepScale \div 2
                                        ELSE reputation,
                                        LoggedEvent(event_log', day'))]_vars

\* C9 amended: on a day without visitors the reputation update changes nothing,
\* neither by satisfaction nor by the 0.5 decay, whatever the reputation is; the
\* decay is taken only on days with at least one visitor.
C9_NoVisitorsNoChange ==
    [][(day' = day + 1 /\ daily_visitors' = <<>> /\ active_campaigns = <<>>) =>
         reputation' = AfterLoggedEvent(reputation, LoggedEvent(event_log', day'))]_vars

\* A day without visitors and without an event has passed with the reputation
\* above 50 (the celebrity of the day before raised it to 60).
C9_Witness ==
    /\ day = 3
    /\ daily_visitors = <<>>
    /\ LoggedEvent(event_log, day) = "None"
    /\ reputation = 60 * RepScale
    /\ \E k \in 1..Len(event_log) :
          event_log[k] = LogEntry(2, "event", "Celebrity Visit")

\* The promotions that count for the entry fee: active, target entry or all.
EntryPromotions(prom) ==
    {p \in 1..Len(Promotions) :
        prom[p].active /\ Promotions[p].target \in {"entry", "all"}}

\* The product of (100 - discount_percent) over the set S of promotions.
RECURSIVE DiscountProduct(_)
DiscountProduct(S) ==
    IF S = {} THEN 1
    ELSE LET p == CHOOSE x \in S : TRUE
         IN (100 - Promotions[p].discount_percent) * DiscountProduct(S \ {p})

RECURSIVE Hundreds(_)
Hundreds(n) == IF n = 0 THEN 1 ELSE 100 * Hundreds(n - 1)

\* C10: in a settlement with G guests, no facilities and no staff,
\* daily_expenses = 8000 + 15000 + the sum over the pools of maintenance_cost +
\* int(500 * |temperature - 40| / 10), and daily_income = G * entry_fee * M with
\* M the product of (1 - discount_percent / 100) over the active promotions
\* whose target is entry or all (restaurant promotions do not count).
C10_SettlementFormulas ==
    [][(day' = day + 1 /\ facilities = <<>> /\ staff = <<>>) =>
         /\ daily_expenses' =
               Yen(8000 + 15000
                   + SumSeq([i \in 1..Len(pools) |->
                               pools[i].maintenance_cost
                               + 50 * Abs(pools[i].temperature - 40)]))
         /\ daily_income' * Hundreds(Cardinality(EntryPromotions(promotions')))
               = Yen(Len(daily_visitors') * entry_fee)
                 * DiscountProduct(EntryPromotions(promotions'))]_vars

\* A day with two guests was settled with a pool off 40 degrees, two stacked
\* entry promotions and the restaurant promotion active.
C10_Witness ==
    /\ day > 1
    /\ Len(daily_visitors) = 2
    /\ pools # <<>>
    /\ entry_fee = 1000
    /\ active_promotions = <<5, 1, 2>>
    /\ daily_income = Yen(2 * 680)
    /\ daily_expenses = Yen(8000 + 15000 + 1250)

\* ------------------------------------------------------------------ SpecCalendar
\* Half a year of day advances from the constructor, nothing else happening.
NewDayCalendar == NewDay(QuietCfg, MaxCalendarDay)

NextCalendar == NewDayCalendar

SpecCalendar == Init /\ [][NextCalendar]_vars

\* The season after s in the cycle Spring, Summer, Autumn, Winter, Spring.
FollowingSeason(s) ==
    CASE s = "Spring" -> "Summer"
      [] s = "Summer" -> "Autumn"
      [] s = "Autumn" -> "Winter"
      [] s = "Winter" -> "Spring"

\* C6: each new_day increases day by exactly 1; the season moves to the next
\* value of the cycle exactly in the advances whose resulting day is a multiple
\* of 90 and is unchanged in every other advance, so from day 1 in Spring it is
\* Spring up to day 89, Summer from day 90 and Autumn from day 180.
C6_CalendarAndSeasons ==
    [][/\ day' = day + 1
       /\ season' = IF day' % 90 = 0 THEN FollowingSeason(season) ELSE season
       /\ (day' < 90 => season' = "Spring")
       /\ (90 <= day' /\ day' < 180 => season' = "Summer")
       /\ (180 <= day' /\ day' < 270 => season' = "Autumn")]_vars

\* The second rollover has happened: day 180 is the first day of Autumn.
C6_Witness == day = 180 /\ season = "Autumn" /\ weather.season = "Autumn"

\* ------------------------------------------------------------------ scenarios
\* A state of a game in progress: the constructor's state with the money, the
\* reputation, the entry fee, the pools, the facilities and the roster that
\* earlier days and commands have left.
Scenario(money0, reputation0, entry_fee0, pools0, facilities0, staff0) ==
    /\ day = 1
    /\ season = "Spring"
    /\ money = money0
    /\ reputation = reputation0
    /\ entry_fee = entry_fee0
    /\ pools = pools0
    /\ facilities = facilities0
    /\ staff = staff0
    /\ weather = [conditions |-> "Clear", temperature |-> 20, season |-> "Spring"]
    /\ campaigns = [i \in 1..Len(Campaigns) |->
                      [active |-> FALSE, days_remaining |-> Campaigns[i].duration]]
    /\ active_campaigns = <<>>
    /\ promotions = [i \in 1..Len(Promotions) |->
                       [active |-> FALSE, days_remaining |-> Promotions[i].duration]]
    /\ active_promotions = <<>>
    /\ guests = 0
    /\ daily_income = 0
    /\ daily_expenses = 0
    /\ daily_visitors = <<>>
    /\ customer_feedback = <<>>
    /\ event_log = <<>>
    /\ last_upgrade_day = 1
    /\ boredom_factor = 0
    /\ pc = "idle"

\* ------------------------------------------------------------------ SpecVisitors
\* Day advances of a resort with one pool, customers of every personality and
\* an entry fee at or just above twice a personality's threshold.
VisitorsCfg ==
    [QuietCfg EXCEPT !.personalities = PersonalityNames,
                     !.lowrep = BOOLEAN,
                     !.events = {"Local Festival"}]

VisitorFees == {6000, 6001, 12000, 12001, 16800, 16801, 18200, 18201, 32000, 32001}

InitVisitors ==
    \E fee \in VisitorFees, rep \in {25 * RepScale, 50 * RepScale} :
        Scenario(Yen(25000), rep, fee, <<NewPool("Small", 40)>>, <<>>, <<>>)

NewDayVisitors == NewDay(VisitorsCfg, MaxScenarioDay)

NextVisitors == NewDayVisitors

SpecVisitors == InitVisitors /\ [][NextVisitors]_vars

\* entry_fee > 2T for personality p, T = max_acceptable_fee * (2 - price_sensitivity).
AboveTwiceThreshold(fee, p) ==
    10 * fee > 2 * max_acceptable_fee[p] * (20 - PERSONALITIES[p].price_sensitivity)

\* C7: no customer is among the day's visitors when entry_fee is above twice
\* the threshold T of the customer's personality, whatever the draws; with
\* entry_fee above 32000 the day advance yields no guests at all.
C7_NoVisitAboveTwiceThreshold ==
    [][day' = day + 1 =>
         /\ \A i \in 1..Len(daily_visitors') :
               ~AboveTwiceThreshold(entry_fee, daily_visitors'[i].personality)
         /\ entry_fee > 32000 => (guests' = 0 /\ daily_visitors' = <<>>)]_vars

\* A day at exactly twice the largest threshold: a Luxury Enthusiast came and
\* paid 32000, nobody of another personality did.
C7_Witness ==
    /\ day > 1
    /\ entry_fee = 32000
    /\ daily_visitors # <<>>
    /\ \A i \in 1..Len(daily_visitors) : daily_visitors[i].personality = "Luxury Enthusiast"
    /\ daily_income = Yen(32000) * Len(daily_visitors)

\* ------------------------------------------------------------------ SpecStaff
\* A resort some weeks into a game with little money: staff worn down to the
\* edge of leaving, a neglected pool, wages that cannot be paid, bonuses,
\* manual cleanings and plumbing trouble.
StaffCfg ==
    [QuietCfg EXCEPT !.mood = {0, 15, -15},
                     !.personalities = {},
                     !.quit = BOOLEAN,
                     !.events = {"Plumbing Issue"}]

\* A member with the happiness and the days worked that earlier days left.
Veteran(name, role, skill_level, happiness, days_worked) ==
    [NewStaff(name, role, skill_level) EXCEPT
        !.happiness = happiness, !.days_worked = days_worked]

StaffRosters ==
    {<<Veteran("Sato Yuki", "Cleaner", 1, 32, 40)>>,
     <<Veteran("Sato Yuki", "Cleaner", 1, 31, 40),
       Veteran("Tanaka Emi", "Manager", 3, 80, 3)>>,
     <<Veteran("Tanaka Emi", "Manager", 3, 80, 3),
       Veteran("Tanaka Emi", "Attendant", 2, 32, 40)>>}

WornPool == [NewPool("Small", 40) EXCEPT !.cleanliness = 25]

InitStaff ==
    \E m \in {Yen(0), Yen(12000)}, roster \in StaffRosters, ps \in {<<>>, <<WornPool>>} :
        Scenario(m, 50 * RepScale, 2000, ps, <<>>, roster)

NewDayStaff == NewDay(StaffCfg, MaxDay)

GiveBonusStaff == \E i \in 1..MaxStaff : GiveBonus(i, 10000)

CleanPoolStaff == \E i \in 1..MaxPools : CleanPool(i)

NextStaff ==
    \/ NewDayStaff
    \/ GiveBonusStaff
    \/ CleanPoolStaff

SpecStaff == InitStaff /\ [][NextStaff]_vars

\* C3: after any sequence of day advances, with events, unpaid-wage penalties,
\* bonuses and manual cleanings interleaved, the cleanliness of every pool and
\* the happiness of every staff member still on the roster are within [0, 100].
C3_CleanlinessAndHappinessInRange ==
    /\ \A i \in 1..Len(pools) : pools[i].cleanliness \in 0..100
    /\ \A i \in 1..Len(staff) : staff[i].happiness \in 0..100

\* An unpaid day with a plumbing issue has passed: a member left, another
\* stayed with happiness 1, and the pool came back from 0 to 20.
C3_Witness ==
    /\ day > 1
    /\ LoggedEvent(event_log, day) = "Plumbing Issue"
    /\ \E k \in 1..Len(event_log) : event_log[k].kind = "unpaid"
    /\ \E i \in 1..Len(staff) : staff[i].happiness = 1
    /\ pools # <<>> /\ pools[1].cleanliness = 20

\* The names in the day's "left due to unpaid wages" entries of the log, in order.
UnpaidNames(log, d) ==
    LET Unpaid(e) == e.kind = "unpaid" /\ e.day = d
        entries == SelectSeq(log, Unpaid)
    IN [k \in 1..Len(entries) |-> entries[k].name]

\* C8: when a day advance starts its settlement with money below the total
\* staff salary, every member's happiness is reduced by exactly 30 before the
\* removal check; a member leaves if the reduced happiness is <= 0 or on the
\* draw; every member who left is absent from the roster and has exactly one
\* "left due to unpaid wages" entry in event_log for that day, and every
\* member who did not leave stays with the reduced happiness.  (The roster at
\* the settlement is the roster after the day's work step; no member of this
\* specification reaches a skill review, so the salaries are those of the
\* state before the advance.)
C8_UnpaidStaff ==
    [][(day' = day + 1 /\ money < get_total_salary(staff)) =>
         \E w \in [1..Len(staff) -> WorkDraws(StaffCfg)], keep \in [1..Len(staff) -> BOOLEAN] :
            LET reduced == [i \in 1..Len(staff) |->
                              [work_day(staff, w)[i] EXCEPT !.happiness = @ - 30]]
                left == Filter(reduced, [i \in 1..Len(staff) |-> ~keep[i]])
            IN /\ \A i \in 1..Len(staff) : reduced[i].happiness <= 0 => ~keep[i]
               /\ staff' = Filter(reduced, keep)
               /\ UnpaidNames(event_log', day') = [k \in 1..Len(left) |-> left[k].name]]_vars

\* An unpaid day on which one of two members with the same name left and the
\* other stayed with happiness 80 - 1 - 30.
C8_Witness ==
    /\ day = 2
    /\ UnpaidNames(event_log, 2) = <<"Tanaka Emi">>
    /\ Len(staff) = 1
    /\ staff[1].name = "Tanaka Emi" /\ staff[1].role = "Manager"
    /\ staff[1].happiness = 49

\* ------------------------------------------------------------------ SpecEvents
\* Day advances under every event of the catalogue, from resorts with and
\* without pools, facilities and staff, at reputations from 0 to 100, with a
\* campaign running or not and customers knocking even where there is no pool.
EventsCfg ==
    [QuietCfg EXCEPT !.knock = TRUE,
                     !.lowrep = BOOLEAN,
                     !.viral = {0, 10},
                     !.events = EventNames,
                     !.blogger = {10}]

InitEvents ==
    \E rep \in {0, 2950, 50 * RepScale, 9700, 100 * RepScale},
       ps \in {<<>>, <<NewPool("Small", 40)>>},
       fs \in {<<>>, <<NewRestaurant(1)>>},
       st \in {<<>>, <<NewStaff("Ito Kenji", "Chef", 3)>>} :
        Scenario(Yen(75000), rep, 1000, ps, fs, st)

NewDayEvents == NewDay(EventsCfg, MaxScenarioDay)

StartCampaignEvents == StartCampaign(4)

NextEvents ==
    \/ NewDayEvents
    \/ StartCampaignEvents

SpecEvents == InitEvents /\ [][NextEvents]_vars

\* C1: a day advance of a resort with zero pools ends with guests = 0, an
\* empty daily_visitors list and an empty customer_feedback list, whatever the
\* reputation, the marketing, the facilities, the draws and the event are.
C1_NoPoolsNoGuests ==
    [][(day' = day + 1 /\ pools = <<>>) =>
         (guests' = 0 /\ daily_visitors' = <<>> /\ customer_feedback' = <<>>)]_vars

\* A day without pools at a high reputation, with a facility, a running
\* campaign and the Local Festival, has ended without guests.
C1_Witness ==
    /\ day > 1
    /\ pools = <<>>
    /\ facilities # <<>>
    /\ active_campaigns # <<>>
    /\ reputation > 90 * RepScale
    /\ LoggedEvent(event_log, day) = "Local Festival"
    /\ guests = 0 /\ daily_visitors = <<>> /\ customer_feedback = <<>>

\* C2: starting within [0, 100], the reputation is within [0, 100] after
\* new_day, through the campaign effects, the satisfaction update, the 0.5
\* decay and whichever event fires.
C2_ReputationInRange == 0 <= reputation /\ reputation <= 100 * RepScale

\* A day with visitors, a running campaign and a magazine feature has ended
\* with the reputation at the cap.
C2_Witness ==
    /\ day > 1
    /\ reputation = 100 * RepScale
    /\ daily_visitors # <<>>
    /\ active_campaigns # <<>>
    /\ LoggedEvent(event_log, day) = "Travel Magazine Feature"

\* C15 as stated: for a resort with no pools, with or without facilities and
\* staff, one day advance never leaves the reputation higher than it was
\* before that advance.
C15_NoPoolsReputationNotHigher ==
    [][(day' = day + 1 /\ pools = <<>>) => reputation' <= reputation]_vars

\* C4 as stated: new_day runs all of its steps to completion without raising,
\* whichever event is drawn; no state is reachable in which the day, the
\* finances and the reputation of a day are committed and the later steps of
\* that day (pool decay and restoration, occupancy update, automatic top-up)
\* were skipped.
C4_NewDayRunsToCompletion == pc # "raised"

\* ------------------------------------------------------------------ SpecMarketing
\* A week and a day of a resort, with or without a pool, on which the player
\* starts the Couples Package promotion and the Local Newspaper Ad campaign
\* (both of duration 7) on any day.
MarketingCfg == QuietCfg

InitMarketing ==
    \E ps \in {<<>>, <<NewPool("Small", 40)>>} :
        Scenario(Yen(75000), 50 * RepScale, 1000, ps, <<>>, <<>>)

NewDayMarketing == NewDay(MarketingCfg, MaxMarketingDay)

StartPromotionMarketing == StartPromotion(2)

StartCampaignMarketing == StartCampaign(1)

NextMarketing ==
    \/ NewDayMarketing
    \/ StartPromotionMarketing
    \/ StartCampaignMarketing

SpecMarketing == InitMarketing /\ [][NextMarketing]_vars

\* The campaigns _calculate_guests counts for its boost, read from lists cs
\* and flags cf: the members of the active list whose flag is set.
CountedCampaigns(cs, cf) == {c \in Range(cs) : cf[c].active}

\* C11 as stated: a promotion or campaign that is running when a day advance
\* starts (the advance is one of the D that follow its start) acts in that
\* advance: the settlement's entry income is G * entry_fee times the discounts
\* of the entry/all promotions that were running, and every campaign that was
\* running is counted for the 20% boost by the guest generation (which reads
\* the lists as update_daily left them, the lists of the state after the day).
C11_ActsInEachOfTheDAdvances ==
    [][(day' = day + 1 /\ facilities = <<>>) =>
         /\ daily_income' * Hundreds(Cardinality(EntryPromotions(promotions)))
               = Yen(Len(daily_visitors') * entry_fee)
                 * DiscountProduct(EntryPromotions(promotions))
         /\ CountedCampaigns(active_campaigns', campaigns')
               = CountedCampaigns(active_campaigns, campaigns)]_vars

\* Every member of the active lists is active with 1 <= days_remaining <=
\* duration, and no item is in a list twice.
ActiveListsWellFormed ==
    /\ \A k \in 1..Len(active_campaigns) :
          /\ campaigns[active_campaigns[k]].active
          /\ campaigns[active_campaigns[k]].days_remaining
                \in 1..Campaigns[active_campaigns[k]].duration
    /\ \A k \in 1..Len(active_promotions) :
          /\ promotions[active_promotions[k]].active
          /\ promotions[active_promotions[k]].days_remaining
                \in 1..Promotions[active_promotions[k]].duration
    /\ \A j, k \in 1..Len(active_campaigns) :
          active_campaigns[j] = active_campaigns[k] => j = k
    /\ \A j, k \in 1..Len(active_promotions) :
          active_promotions[j] = active_promotions[k] => j = k

\* The sum of the daily reputation gains of the campaigns of the list cs.
CampaignGains(cs) == SumSeq([k \in 1..Len(cs) |-> Campaigns[cs[k]].gain])

\* C12: with items started through the commands, between day advances every
\* member of active_campaigns and active_promotions is active with
\* 1 <= days_remaining <= duration; each day advance takes exactly 1 off the
\* days_remaining of every member; a member that reaches 0 is deactivated and
\* removed from its list in that advance and the others stay; and each running
\* campaign's effect is applied once per advance (seen on the days without
\* visitors and events, where nothing else moves the reputation), so D times
\* over its run from D to 0.
C12_MarketingLifecycle ==
    [][/\ ActiveListsWellFormed'
       /\ day' = day + 1 =>
            /\ \A k \in 1..Len(active_campaigns) :
                  LET c == active_campaigns[k]
                  IN /\ campaigns'[c].days_remaining = campaigns[c].days_remaining - 1
                     /\ campaigns'[c].active = (campaigns'[c].days_remaining > 0)
                     /\ (c \in Range(active_campaigns')) = campaigns'[c].active
            /\ \A k \in 1..Len(active_promotions) :
                  LET p == active_promotions[k]
                  IN /\ promotions'[p].days_remaining = promotions[p].days_remaining - 1
                     /\ promotions'[p].active = (promotions'[p].days_remaining > 0)
                     /\ (p \in Range(active_promotions')) = promotions'[p].active
            /\ Range(active_campaigns') \subseteq Range(active_campaigns)
            /\ Range(active_promotions') \subseteq Range(active_promotions)
            /\ (daily_visitors' = <<>> /\ LoggedEvent(event_log', day') = "None") =>
                  reputation' = reputation + CampaignGains(active_campaigns)]_vars

\* Both items were started on day 1 and have run out: after seven advances
\* they are inactive at 0 days and off the lists, and the seven daily effects
\* of the campaign have taken the reputation of the resort without pools from
\* 50 to 53.5.
C12_Witness ==
    /\ day = 8
    /\ pools = <<>>
    /\ active_campaigns = <<>> /\ active_promotions = <<>>
    /\ campaigns[1] = [active |-> FALSE, days_remaining |-> 0]
    /\ promotions[2] = [active |-> FALSE, days_remaining |-> 0]
    /\ reputation = 50 * RepScale + 7 * 50

\* ------------------------------------------------------------------ SpecUpgrades
\* A well-funded resort with one pool and a luxury inn on which the player
\* adds the ingredients of the catalogue one after the other and upgrades the
\* inn, with day advances and the events that touch the pools in between.
UpgradesCfg ==
    [QuietCfg EXCEPT !.personalities = {},
                     !.events = {"Hot Spring Quality Improved", "Plumbing Issue"}]

InitUpgrades ==
    Scenario(Yen(1000000), 50 * RepScale, 2000, <<NewPool("Small", 40)>>,
             <<NewAccommodation("Japanese", 10, 3)>>, <<>>)

NewDayUpgrades == NewDay(UpgradesCfg, MaxScenarioDay)

\* The player takes the ingredients in the order of the catalogue.
AddIngredientUpgrades ==
    \E k \in 1..Len(Ingredients) :
        /\ pools # <<>>
        /\ k = Len(pools[1].ingredients) + 1
        /\ AddIngredient(1, k)

UpgradeFacilityUpgrades == UpgradeFacility(1)

NextUpgrades ==
    \/ NewDayUpgrades
    \/ AddIngredientUpgrades
    \/ UpgradeFacilityUpgrades

SpecUpgrades == InitUpgrades /\ [][NextUpgrades]_vars

\* C13 as stated: the popularity of every pool and the quality and the
\* popularity of every facility are within [0, 100] after any sequence of
\* add_ingredient with distinct ingredients, facility upgrades, events and
\* day advances.
C13_PopularityAndQualityInRange ==
    /\ \A i \in 1..Len(pools) : pools[i].popularity \in 0..100
    /\ \A i \in 1..Len(facilities) :
          /\ facilities[i].quality \in 0..100
          /\ facilities[i].popularity \in 0..100

\* ------------------------------------------------------------------ SpecReplay
\* Day advances replayed from one starting state: a resort with or without a
\* pool, a staff member close to a skill review, little or plenty of money, a
\* low or a middling reputation and a campaign the player may start, under
\* draws of which the day uses only some.
ReplayCfg ==
    [QuietCfg EXCEPT !.skillup = BOOLEAN,
                     !.viral = {0, 10},
                     !.knock = TRUE,
                     !.lowrep = BOOLEAN,
                     !.quit = BOOLEAN,
                     !.events = {"Plumbing Issue", "Staff Conflict"}]

InitReplay ==
    \E m \in {Yen(3000), Yen(75000)}, rep \in {2960, 50 * RepScale},
       ps \in {<<>>, <<NewPool("Small", 40)>>}, worked \in {28, 29} :
        Scenario(m, rep, 1000, ps, <<>>,
                 <<Veteran("Kato Naomi", "Cleaner", 2, 80, worked)>>)

NewDayReplay == NewDay(ReplayCfg, MaxScenarioDay)

StartCampaignReplay == StartCampaign(1)

NextReplay ==
    \/ NewDayReplay
    \/ StartCampaignReplay

SpecReplay == InitReplay /\ [][NextReplay]_vars

\* The resort as new_day has it when it generates the guests, and when it
\* settles the finances, under the draws d.
AtGuestGeneration(r, d) ==
    UpdateBoredom(
        update_daily(StaffStep(ResetDaily(WeatherStep(AdvanceCalendar(r), d)), d.work),
                     d.viral))

AtSettlement(r, d) == calculate_guests(AtGuestGeneration(r, d), d.guests)

\* The values the random source returns to new_day started in r, read off the
\* draws d: a draw the code does not make in this run (the skill review before
\* a 30th worked day, the viral bonus of another campaign, the customers of a
\* resort without pools or beyond the potential visitors, the low-reputation
\* draw at 30 or more, the leave draws of a paid roster or of a member whose
\* happiness is used up, the details of another event, the pool decay after a
\* raise) is replaced by a fixed value.
Consumed(r, d) ==
    LET rs == AtGuestGeneration(r, d)
        rg == AtSettlement(r, d)
        n == Len(rg.daily_visitors)
        unpaid == rg.money < get_total_salary(rg.staff)
        plumbing == d.event.name = "Plumbing Issue"
    IN [variation |-> d.variation,
        condition |-> d.condition,
        work |-> [i \in 1..Len(r.staff) |->
                    [decay |-> d.work[i].decay,
                     mood |-> d.work[i].mood,
                     skillup |-> (r.staff[i].days_worked + 1) % 30 = 0 /\ d.work[i].skillup]],
        viral |-> [k \in 1..Len(r.active_campaigns) |->
                     IF Campaigns[r.active_campaigns[k]].name = "Social Media Campaign"
                     THEN d.viral[k] ELSE 0],
        lucky |-> IF r.pools = <<>> THEN <<>>
                  ELSE Truncate(d.guests.lucky, PotentialVisitors(rs)),
        lowrep |-> r.pools # <<>> /\ rs.reputation < 30 * RepScale /\ d.guests.lowrep,
        sample |-> Filter(d.guests.sample,
                          [k \in 1..Len(d.guests.sample) |-> d.guests.sample[k] <= n]),
        pick |-> [k \in 1..Min(5, n) |-> d.guests.pick[k]],
        quit |-> [i \in 1..Len(rg.staff) |->
                    unpaid /\ rg.staff[i].happiness - 30 > 0 /\ d.quit[i]],
        event |-> [name |-> d.event.name,
                   repair |-> IF plumbing THEN d.event.repair ELSE 0,
                   pool |-> IF plumbing /\ r.pools # <<>> THEN d.event.pool ELSE 1,
                   blogger |-> IF d.event.name = "Travel Blogger Visit"
                               THEN d.event.blogger ELSE 0],
        decay |-> IF d.event.name = "Staff Conflict" THEN <<>> ELSE d.decay]

\* The runs of one day advance from the current state: the values the random
\* source returned and the state the day ended in.
Replays == {<<Consumed(Resort, d), new_day(Resort, d)>> : d \in Draws(ReplayCfg)}

TriggerCfg ==
    [QuietCfg EXCEPT !.events = EventNames,
                     !.repair = {5000, 20000},
                     !.blogger = {5, 10}]

InitTrigger ==
    \E rep \in {0, 30 * RepScale, 50 * RepScale, 97 * RepScale, 100 * RepScale},
       ps \in {<<>>, <<WornPool>>, <<NewPool("Small", 40), NewPool("Large", 42)>>},
       fs \in {<<>>, <<NewRestaurant(1)>>},
       st \in {<<>>, <<NewStaff("Ito Kenji", "Chef", 3)>>} :
        Scenario(Yen(75000), rep, 2000, ps, fs, st)

TriggerRandomEventTrigger == \E e \in EventDraws(TriggerCfg) : TriggerRandomEvent(e)

NextTrigger == TriggerRandomEventTrigger

SpecTrigger == InitTrigger /\ [][NextTrigger]_vars

\* C16 as stated: trigger_random_event called with chance 1.0 applies exactly
\* one event of the catalogue and returns its (name, description, effect
\* description) triple, for every event of the catalogue and every resort
\* state: the call returns, and the state it leaves is the state before it
\* changed by the effect of one event.
C16_EveryEventAppliesAndReturns ==
    [][pc = "idle" =>
         /\ pc' = "returned"
         /\ \E e \in EventDraws(TriggerCfg) :
               /\ e.name \in EventNames
               /\ Commit([ApplyEvent(Resort, e) EXCEPT !.pc = "returned"])]_vars

\* ------------------------------------------------------------------ SpecCleaners
\* Days of a resort with one or two pools in need of care, with no cleaner
\* or with one, every pool losing 10, 15 or 20 points a day, and manual
\* cleanings in between.
CleanersCfg ==
    [QuietCfg EXCEPT !.personalities = {}, !.decay = {10, 15, 20}]

UsedPool == [NewPool("Small", 40) EXCEPT !.cleanliness = 60]

InitCleaners ==
    \E ps \in {<<UsedPool>>, <<UsedPool, UsedPool>>},
       st \in {<<>>, <<NewStaff("Sato Yuki", "Cleaner", 1)>>,
               <<NewStaff("Kato Naomi", "Cleaner", 3)>>} :
        Scenario(Yen(200000), 50 * RepScale, 2000, ps, <<>>, st)

NewDayCleaners == NewDay(CleanersCfg, MaxDay)

CleanPoolCleaners == \E i \in 1..MaxPools : CleanPool(i)

NextCleaners ==
    \/ NewDayCleaners
    \/ CleanPoolCleaners

SpecCleaners == InitCleaners /\ [][NextCleaners]_vars

\* One restoration by the cleaners of the roster: int(5 * average Cleaner
\* skill) on top of cleanliness c, at most 100; c itself without cleaners.
RestoredOnce(c, roster) ==
    LET cleaners == get_staff_by_role(roster, "Cleaner")
        skill_sum == SumSeq([k \in 1..Len(cleaners) |-> cleaners[k].skill_level])
    IN IF cleaners = <<>> THEN c
       ELSE Min(100, c + (5 * skill_sum) \div Len(cleaners))

\* The automatic top-up that ends the day: 20 points below 70.
ToppedUp(c) == IF c < 70 THEN Min(100, c + 20) ELSE c

\* C17 as stated: in the pool update of a day advance every pool loses an
\* amount in 10..20 once (floor 0) and is then, when a Cleaner is employed,
\* restored once by int(5 * average Cleaner skill) (ceiling 100), however many
\* pools there are; on a day without an event the day's automatic top-up is
\* the only other change of a pool's cleanliness.
C17_DecayOnceRestoreOnce ==
    [][(day' = day + 1 /\ LoggedEvent(event_log', day') = "None") =>
         \A i \in 1..Len(pools) :
            \E dec \in 10..20 :
               pools'[i].cleanliness
                  = ToppedUp(RestoredOnce(Max(0, pools[i].cleanliness - dec), staff'))]_vars

\* ------------------------------------------------------------------ SpecWork
\* Days around a 30th worked day of one staff member of any skill of the
\* 1..10 scale, in a resort that can pay every wage, with bonuses in between.
WorkCfg ==
    [QuietCfg EXCEPT !.personalities = {}, !.worn = {0, 2}, !.skillup = BOOLEAN]

InitWork ==
    \E role \in {"Manager", "Cleaner"}, skill_level \in 1..10, worked \in {28, 29} :
        Scenario(Yen(1000000), 50 * RepScale, 2000, <<>>, <<>>,
                 <<Veteran("Tanaka Emi", role, skill_level, 80, worked)>>)

NewDayWork == NewDay(WorkCfg, MaxDay)

GiveBonusWork == GiveBonus(1, 10000)

NextWork ==
    \/ NewDayWork
    \/ GiveBonusWork

SpecWork == InitWork /\ [][NextWork]_vars

\* C18 as stated: a working day never lowers a staff member's skill. Over a
\* day advance (one call of Staff.work per member) the skill of a member of
\* skill 1..10 stays or, on a 30th worked day only, grows by 1, it stays
\* within 1..10, and the salary is the one derived from role and skill.
C18_WorkNeverLowersSkill ==
    [][(day' = day + 1 /\ Len(staff') = Len(staff)) =>
         \A i \in 1..Len(staff) :
            staff[i].skill_level \in 1..10 =>
               /\ staff'[i].skill_level \in {staff[i].skill_level, staff[i].skill_level + 1}
               /\ staff'[i].skill_level # staff[i].skill_level
                     => staff'[i].days_worked % 30 = 0
               /\ staff'[i].skill_level \in 1..10
               /\ staff'[i].salary
                     = calculate_salary(staff'[i].role, staff'[i].skill_level)]_vars

\* ------------------------------------------------------------------ SpecReputation
\* Day advances without events or campaigns of a resort with one pool,
\* neglected, clean, or clean with one or two ingredients, cheap or dear,
\* visited by customers of three personalities,
\* from reputations at the floor, below, at and above 50 and at the ceiling.
ReputationCfg ==
    [QuietCfg EXCEPT
        !.personalities = {"Budget Traveler", "Relaxation Seeker", "Health Conscious"}]

InitReputation ==
    \E rep \in {0, 30 * RepScale, 50 * RepScale, 60 * RepScale, 100 * RepScale},
       p \in {WornPool, NewPool("Small", 40),
              add_ingredient(NewPool("Small", 40), 1),
              add_ingredient(add_ingredient(NewPool("Small", 40), 1), 4)},
       fee \in {1000, 6000} :
        Scenario(Yen(75000), rep, fee, <<p>>, <<>>, <<>>)

NewDayReputation == NewDay(ReputationCfg, MaxScenarioDay)

NextReputation == NewDayReputation

SpecReputation == InitReputation /\ [][NextReputation]_vars

\* Average satisfaction of the visitors vs, in hundredths.
AvgSatisfaction(vs) ==
    SumSeq([i \in 1..Len(vs) |-> vs[i].satisfaction]) \div Len(vs)

\* A day advance with visitors on which nothing but _update_reputation
\* changes the reputation: no campaign runs and no event happens.
ReputationUpdateOnly ==
    /\ day' = day + 1
    /\ daily_visitors' # <<>>
    /\ active_campaigns = <<>>
    /\ LoggedEvent(event_log', day') = "None"

FacilitiesCfg == [QuietCfg EXCEPT !.quit = BOOLEAN]

FacilityRosters ==
    {<<>>,
     <<NewStaff("Ito Kenji", "Chef", 3)>>,
     <<NewStaff("Sato Yuki", "Cleaner", 1)>>,
     <<NewStaff("Mori Aya", "Attendant", 2), NewStaff("Abe Ren", "Receptionist", 2)>>,
     <<NewStaff("Ito Kenji", "Chef", 3), NewStaff("Tanaka Emi", "Manager", 3)>>}

InitFacilities ==
    \E m \in {Yen(0), Yen(1000000)},
       ps \in {<<>>, <<NewPool("Small", 40)>>},
       fs \in {<<NewAccommodation("Japanese", 5, 1)>>,
               <<NewRestaurant(1), NewGiftShop(1)>>,
               <<NewAccommodation("Japanese", 5, 1), NewRestaurant(1)>>},
       roster \in FacilityRosters :
        Scenario(m, 50 * RepScale, 1000, ps, fs, roster)

NewDayFacilities == NewDay(FacilitiesCfg, MaxScenarioDay)

HireFacilities ==
    \E role \in {"Server", "Attendant"} : Hire("Kato Naomi", role, 1)

NextFacilities ==
    \/ NewDayFacilities
    \/ HireFacilities

SpecFacilities == InitFacilities /\ [][NextFacilities]_vars

\* The roles that count for a facility of each type.
EligibleRoles(f) ==
    CASE f.kind = "Restaurant" -> {"Chef", "Server"}
      [] f.kind = "GiftShop" -> {"Attendant"}
      [] f.kind = "Accommodation" -> {"Receptionist", "Attendant", "Cleaner"}
      [] f.kind = "Entertainment" -> {"Attendant"}

EligibleCount(roster, f) ==
    Cardinality({k \in 1..Len(roster) : roster[k].role \in EligibleRoles(f)})

\* The facility income x scaled by 0.2, by 0.5 + 0.5 * count / required, or
\* by 1.0, in quarter yen.
ScaledIncome(x, count, required) ==
    IF count = 0 THEN (Yen(x) * 2) \div 10
    ELSE IF count < required THEN (Yen(x) * (required + count)) \div (2 * required)
    ELSE Yen(x)

\* The day's income when every facility is scaled by the eligible staff of
\* roster: the entry fees of the day's guests plus the scaled facility incomes.
IncomeScaledBy(roster) ==
    guests' * Yen(entry_fee)
    + SumSeq([i \in 1..Len(facilities) |->
                ScaledIncome(get_daily_income(facilities[i], guests'),
                             EligibleCount(roster, facilities[i]),
                             facilities[i].staff_required)])

\* C20 as stated: after the settlement of a day advance, a facility's
\* is_operational flag is False exactly when the roster holds no staff in a
\* role eligible for its type, and the day's facility income is scaled by 0.2
\* with no eligible staff, by 0.5 + 0.5 * count / required when understaffed,
\* by 1.0 when fully staffed.
C20_FlagFollowsRoster ==
    [][day' = day + 1 =>
         /\ \A i \in 1..Len(facilities') :
               (~facilities'[i].is_operational) <=> (EligibleCount(staff', facilities'[i]) = 0)
         /\ daily_income' = IncomeScaledBy(staff)]_vars

\* C20 amended: the flag and the scaling of a settlement both follow the
\* eligible staff on the roster as the settlement finds it, that is before
\* the members who leave over unpaid wages in the same settlement are removed:
\* the flag is False exactly when that count is 0, whoever is left afterwards.
C20_FlagFollowsRosterAtSettlement ==
    [][day' = day + 1 =>
         /\ Len(facilities') = Len(facilities)
         /\ \A i \in 1..Len(facilities) :
               (~facilities'[i].is_operational) <=> (EligibleCount(staff, facilities[i]) = 0)
         /\ daily_income' = IncomeScaledBy(staff)]_vars

\* After a settlement whose wages could not be paid the only Chef has left:
\* the restaurant is still flagged operational with no eligible staff on the
\* roster.
C20_Witness ==
    /\ day > 1
    /\ \E k \in 1..Len(event_log) : event_log[k].kind = "unpaid"
    /\ \E i \in 1..Len(facilities) :
          /\ facilities[i].kind = "Restaurant"
          /\ facilities[i].is_operational
          /\ EligibleCount(staff, facilities[i]) = 0

\* ------------------------------------------------------------------ SpecWages
\* Days of a resort without pools whose money lies just below, at and above
\* the total salary of its roster, or below zero with nobody employed; one
\* Cleaner is a day before a skill review, and bonuses are given in between.
WagesCfg ==
    [QuietCfg EXCEPT !.personalities = {}, !.skillup = BOOLEAN, !.quit = BOOLEAN]

WagesRosters ==
    {<<>>,
     <<Veteran("Sato Yuki", "Cleaner", 1, 80, 29)>>,
     <<Veteran("Tanaka Emi", "Manager", 3, 80, 3), Veteran("Sato Yuki", "Cleaner", 1, 25, 40)>>}

InitWages ==
    \E m \in {Yen(-5000), Yen(1999), Yen(2000), Yen(2599), Yen(2600),
              Yen(10499), Yen(10500), Yen(60000)},
       roster \in WagesRosters :
        Scenario(m, 50 * RepScale, 2000, <<>>, <<>>, roster)

NewDayWages == NewDay(WagesCfg, MaxDay)

GiveBonusWages == \E i \in 1..MaxStaff : GiveBonus(i, 1000)

NextWages ==
    \/ NewDayWages
    \/ GiveBonusWages

SpecWages == InitWages /\ [][NextWages]_vars

\* C21: the unpaid-staff penalty is applied in a day's settlement exactly when
\* the money held before the day's income and expenses are applied is strictly
\* less than the total salary of the roster (the roster as the day's work step
\* leaves it), and within that same day advance: whether the previous day was
\* paid plays no part.  When it is applied every member loses 30 happiness and
\* leaves at 0 or below or on the draw; with money >= total salary, or with an
\* empty roster, the settlement removes nobody, lowers no happiness and logs
\* no departure.
C21_UnpaidIffMoneyBelowSalaries ==
    [][day' = day + 1 =>
         \E w \in [1..Len(staff) -> WorkDraws(WagesCfg)], keep \in [1..Len(staff) -> BOOLEAN] :
            LET worked == work_day(staff, w)
                reduced == [i \in 1..Len(staff) |-> [worked[i] EXCEPT !.happiness = @ - 30]]
                left == Filter(reduced, [i \in 1..Len(staff) |-> ~keep[i]])
            IN IF money < get_total_salary(worked)
               THEN /\ \A i \in 1..Len(staff) : reduced[i].happiness <= 0 => ~keep[i]
                    /\ staff' = Filter(reduced, keep)
                    /\ UnpaidNames(event_log', day') = [k \in 1..Len(left) |-> left[k].name]
               ELSE /\ staff' = worked
                    /\ UnpaidNames(event_log', day') = <<>>]_vars

\* Two days of the Cleaner who started with exactly the 2000 of the salary:
\* the first day was paid (2000 is not less than 2000) and left the money at
\* 2000 - 23000 - 2000, the second was not, and the Cleaner stayed with
\* happiness 80 - 1 - 1 - 30.
C21_Witness ==
    /\ day = 3
    /\ UnpaidNames(event_log, 2) = <<>>
    /\ Len(staff) = 1
    /\ staff[1].skill_level = 1
    /\ staff[1].happiness = 48
    /\ money = Yen(2000) - 2 * Yen(25000)

\* C29: the salary charged as expense in a settlement is the total salary of
\* the roster as the settlement finds it (the roster the day's work step
\* leaves), members who quit unpaid in that settlement included: SpecWages has
\* no pools, facilities or visitors, so the day's expenses are the 23000 of
\* base cost and land rent plus that total, and the money falls by them.  The
\* next advance charges the roster that is left.
C29_QuittersAreCharged ==
    [][day' = day + 1 =>
         \E w \in [1..Len(staff) -> WorkDraws(WagesCfg)] :
            LET staff_salaries == get_total_salary(work_day(staff, w))
            IN /\ daily_expenses' = Yen(23000) + staff_salaries
               /\ daily_income' = 0
               /\ money' = money - Yen(23000) - staff_salaries
               /\ Len(staff') < Len(staff)
                     => daily_expenses' > Yen(23000) + get_total_salary(staff')]_vars

\* The Manager and the Cleaner both left unpaid on the first day, charged
\* their 10500 on top of the 23000; the second day charged the 23000 alone.
C29_Witness ==
    /\ day = 3
    /\ staff = <<>>
    /\ UnpaidNames(event_log, 2) = <<"Tanaka Emi", "Sato Yuki">>
    /\ daily_expenses = Yen(23000)
    /\ money = Yen(2599) - Yen(23000) - Yen(10500) - Yen(23000)

\* ------------------------------------------------------------------ SpecBoredom
\* Eleven months of day advances of a rich resort without visitors, whose
\* first pool can be built on any day.
BoredomCfg == [QuietCfg EXCEPT !.personalities = {}]

InitBoredom == Scenario(Yen(20000000), 50 * RepScale, 2000, <<>>, <<>>, <<>>)

NewDayBoredom == NewDay(BoredomCfg, MaxBoredomDay)

BuildPoolBoredom == pools = <<>> /\ BuildPool("Small", 40)

NextBoredom ==
    \/ NewDayBoredom
    \/ BuildPoolBoredom

SpecBoredom == InitBoredom /\ [][NextBoredom]_vars

\* C22: after every day advance boredom_factor is
\* min(30, max(0, (day - last_upgrade_day - 30) div 10)); it is within 0..30,
\* is 0 while at most 30 days have passed since the last upgrade, does not
\* decrease from one day to the next while no upgrade is made, and is 30 only
\* when 330 days or more have passed without an upgrade.
C22_BoredomFormula ==
    [][/\ day' = day + 1 =>
             boredom_factor' = Min(30, Max(0, (day' - last_upgrade_day' - 30) \div 10))
       /\ boredom_factor' \in 0..30
       /\ day' - last_upgrade_day' <= 30 => boredom_factor' = 0
       /\ last_upgrade_day' = last_upgrade_day => boredom_factor' >= boredom_factor
       /\ boredom_factor' = 30 => day' - last_upgrade_day' >= 330]_vars

\* The cap is reached 330 days after a pool was built on day 3.
C22_Witness ==
    /\ pools # <<>>
    /\ last_upgrade_day = 3
    /\ day = 333
    /\ boredom_factor = 30

\* ------------------------------------------------------------------ SpecBuild
\* A rich resort that stays as it was opened until its guests are bored, and
\* then builds its first pool and its first facility, of any of the four
\* types, and upgrades the facility up to twice.
BuildCfg == [QuietCfg EXCEPT !.personalities = {}]

InitBuild == Scenario(Yen(20000000), 50 * RepScale, 2000, <<>>, <<>>, <<>>)

NewFacilities ==
    {NewRestaurant(1), NewGiftShop(1), NewAccommodation("Japanese", 5, 1),
     NewEntertainment("Karaoke", 1)}

\* The player starts building only when the guests are bored.
BuildingStarted == boredom_factor > 0 \/ last_upgrade_day > 1 \/ facilities # <<>>

NewDayBuild == NewDay(BuildCfg, MaxBuildDay)

BuildPoolBuild == BuildingStarted /\ pools = <<>> /\ BuildPool("Small", 40)

BuildFacilityBuild ==
    BuildingStarted /\ facilities = <<>> /\ \E f \in NewFacilities : BuildFacility(f)

UpgradeFacilityBuild == facilities # <<>> /\ facilities[1].quality < 70 /\ UpgradeFacility(1)

NextBuild ==
    \/ NewDayBuild
    \/ BuildPoolBuild
    \/ BuildFacilityBuild
    \/ UpgradeFacilityBuild

SpecBuild == InitBuild /\ [][NextBuild]_vars

\* C23 as stated: every construction or upgrade command (a pool built, a
\* facility of any of the four types built, a facility upgraded) sets
\* last_upgrade_day to the current day and boredom_factor to 0.
C23_BuildingResetsBoredom ==
    [][(day' = day /\ (pools' # pools \/ facilities' # facilities)) =>
         (last_upgrade_day' = day /\ boredom_factor' = 0)]_vars

\* ------------------------------------------------------------------ SpecTopUp
\* Days of a resort with one or two pools that are nearly dirty, or just
\* around the point where a day's decay leaves them at 70, with no cleaner or
\* one, with plumbing trouble and manual cleanings.
TopUpCfg ==
    [QuietCfg EXCEPT !.personalities = {}, !.decay = {10, 15, 20},
                     !.events = {"Plumbing Issue"}]

PoolAt(cleanliness) == [NewPool("Small", 40) EXCEPT !.cleanliness = cleanliness]

InitTopUp ==
    \E ps \in {<<PoolAt(5)>>, <<PoolAt(84)>>, <<PoolAt(85), PoolAt(84)>>,
               <<PoolAt(5), PoolAt(85)>>},
       st \in {<<>>, <<NewStaff("Sato Yuki", "Cleaner", 2)>>} :
        Scenario(Yen(4000), 50 * RepScale, 2000, ps, <<>>, st)

NewDayTopUp == NewDay(TopUpCfg, MaxScenarioDay)

CleanPoolTopUp == \E i \in 1..MaxPools : CleanPool(i)

NextTopUp ==
    \/ NewDayTopUp
    \/ CleanPoolTopUp

SpecTopUp == InitTopUp /\ [][NextTopUp]_vars

\* C24: the automatic top-up adds 20 (ceiling 100) to exactly the pools whose
\* cleanliness is below 70 after the day's decay and cleaner restoration and
\* leaves the pools at 70 or above as they are (stated for the days on which
\* no event touches a pool before the pool update); and at the end of every
\* day advance every pool's cleanliness is at least 20.
C24_TopUpBelowSeventy ==
    [][day' = day + 1 =>
         /\ \A i \in 1..Len(pools') : pools'[i].cleanliness >= 20
         /\ LoggedEvent(event_log', day') = "None" =>
               \E decay \in [1..Len(pools) -> TopUpCfg.decay] :
                  LET restored == UpdatePools(pools, staff', decay, 1)
                  IN /\ Len(pools') = Len(pools)
                     /\ \A i \in 1..Len(pools) :
                           pools'[i].cleanliness =
                              IF restored[i].cleanliness < 70
                              THEN Min(100, restored[i].cleanliness + 20)
                              ELSE restored[i].cleanliness]_vars

\* After one day without cleaners: the pool that decayed from 85 to exactly 70
\* was left alone, the pool that decayed from 84 to 69 was topped up to 89.
C24_Witness ==
    /\ day = 2
    /\ staff = <<>>
    /\ Len(pools) = 2
    /\ pools[1].cleanliness = 70
    /\ pools[2].cleanliness = 89

\* ------------------------------------------------------------------ the day's visitors (SpecVisitors)
\* The resort as a customer sees it at the visit decision of a day advance:
\* the day's weather and boredom are already set, pools, facilities, fee and
\* (in SpecVisitors, where nobody is employed) roster are those of the state
\* before the advance.
AtDecision == [Resort EXCEPT !.weather = weather', !.boredom_factor = boredom_factor']

\* C25 as stated: every customer in daily_visitors carries the satisfaction
\* that evaluate_resort computes against the resort at the customer's visit
\* decision, and the feedback sample shows the value stored on a visitor.
C25_VisitorsWereEvaluated ==
    [][day' = day + 1 =>
         /\ \A i \in 1..Len(daily_visitors') :
               daily_visitors'[i].satisfaction
                  = evaluate_resort(AtDecision, daily_visitors'[i].personality)
         /\ \A k \in 1..Len(customer_feedback') :
               \E i \in 1..Len(daily_visitors') :
                  /\ customer_feedback'[k].personality = daily_visitors'[i].personality
                  /\ customer_feedback'[k].satisfaction = daily_visitors'[i].satisfaction]_vars

\* C26 as stated: at the end of every day advance guests is the number of
\* customers in daily_visitors.
C26_GuestsAreTheVisitors ==
    [][day' = day + 1 => guests' = Len(daily_visitors')]_vars

\* ------------------------------------------------------------------ SpecFeedback
\* Quiet days and days with a crowd of six visitors of two personalities,
\* with the feedback sample drawn from the front or from the back of the
\* visitor list.
FeedbackCfg ==
    [QuietCfg EXCEPT !.personalities = {"Relaxation Seeker", "Health Conscious"},
                     !.crowd = MaxCrowd,
                     !.reversed = TRUE]

InitFeedback ==
    Scenario(Yen(75000), 50 * RepScale, 9000, <<NewPool("Small", 40)>>, <<>>, <<>>)

NewDayFeedback == NewDay(FeedbackCfg, MaxFeedbackDay)

NextFeedback == NewDayFeedback

SpecFeedback == InitFeedback /\ [][NextFeedback]_vars

\* The number of entries of the sequence s that agree with x on personality
\* and satisfaction.
Occurrences(s, x) ==
    Cardinality({i \in 1..Len(s) : /\ s[i].personality = x.personality
                                   /\ s[i].satisfaction = x.satisfaction})

\* C27: after every day advance customer_feedback holds exactly
\* min(5, number of the day's visitors) entries, each taken from a distinct
\* visitor of the day (no more entries of a kind than the day has visitors of
\* that kind); nothing of an earlier day is retained, so the day's visitors
\* are never more than one day's crowd.
C27_FeedbackSample ==
    [][day' = day + 1 =>
         /\ Len(customer_feedback') = Min(5, Len(daily_visitors'))
         /\ \A k \in 1..Len(customer_feedback') :
               Occurrences(customer_feedback', customer_feedback'[k])
                  <= Occurrences(daily_visitors', customer_feedback'[k])
         /\ daily_visitors' = <<>> => customer_feedback' = <<>>
         /\ Len(daily_visitors') <= MaxCrowd]_vars

\* A day with six visitors and five feedback entries, after a day with one
\* visitor: the day's only Relaxation Seeker came first and is the one the
\* sample left out.
C27_Witness ==
    /\ day = 3
    /\ Len(daily_visitors) = 6
    /\ Len(customer_feedback) = 5
    /\ daily_visitors[1].personality = "Relaxation Seeker"
    /\ \A k \in 1..5 : customer_feedback[k].personality = "Health Conscious"
    /\ money = Yen(75000) + 7 * Yen(9000) - 2 * Yen(24000)

\* ------------------------------------------------------------------ SpecOperational
\* A resort of low reputation, where six potential visitors come and a closed
\* facility halves them: a restaurant present from the start or built later,
\* with or without a Server, who can be fired or can leave unpaid.
OperationalCfg ==
    [QuietCfg EXCEPT !.crowd = MaxCrowd,
                     !.lowrep = {FALSE},
                     !.quit = BOOLEAN]

InitOperational ==
    \E m \in {Yen(0), Yen(1000000)},
       fs \in {<<>>, <<NewRestaurant(1)>>},
       roster \in {<<>>, <<NewStaff("Kato Naomi", "Server", 1)>>} :
        Scenario(m, 3 * RepScale, 1000, <<NewPool("Small", 40)>>, fs, roster)

NewDayOperational == NewDay(OperationalCfg, MaxDay)

BuildFacilityOperational == facilities = <<>> /\ BuildFacility(NewRestaurant(1))

FireOperational == Fire(1)

NextOperational ==
    \/ NewDayOperational
    \/ BuildFacilityOperational
    \/ FireOperational

SpecOperational == InitOperational /\ [][NextOperational]_vars

\* C28: in every day advance the number of visitors is bounded by the
\* potential visitors computed from the is_operational flags as they stood
\* before the advance, and every visitor's satisfaction is evaluated against
\* those flags, whatever the roster is (a closed only facility halves the
\* potential visitors of a spring day); the advance then writes the flags from
\* the roster at settlement, so a facility without eligible staff is closed
\* only for the advance after.
C28_FlagsOfPreviousSettlement ==
    [][day' = day + 1 =>
         /\ Len(daily_visitors') <= PotentialVisitors(AtDecision)
         /\ \A k \in 1..Len(daily_visitors') :
               daily_visitors'[k].satisfaction =
                  evaluate_resort(AtDecision, daily_visitors'[k].personality)
         /\ \A i \in 1..Len(facilities) :
               /\ (~facilities[i].is_operational /\ Len(facilities) = 1)
                     => 2 * Len(daily_visitors') <= (2 * reputation) \div RepScale
               /\ EligibleCount(staff, facilities[i]) = 0
                     => ~facilities'[i].is_operational]_vars

\* A newly built restaurant without any staff: the first advance after its
\* construction still brings all six potential visitors, each with the bonus
\* of an operational facility, and leaves the restaurant closed.
C28_Witness ==
    /\ day = 2
    /\ staff = <<>>
    /\ facilities # <<>>
    /\ money < Yen(1000000) - Yen(200000)
    /\ ~facilities[1].is_operational
    /\ Len(daily_visitors) = 6
    /\ \A k \in 1..6 :
          daily_visitors[k].satisfaction =
             evaluate_resort([Resort EXCEPT !.facilities[1].is_operational = TRUE,
                                            !.reputation = 3 * RepScale],
                             "Budget Traveler")

\* The second advance after the Server was fired: the closed restaurant
\* halves the potential visitors.
C28_PenaltyInSecondAdvance ==
    /\ day = 3
    /\ staff = <<>>
    /\ facilities # <<>>
    /\ ~facilities[1].is_operational
    /\ Len(daily_visitors) = 3

\* ------------------------------------------------------------------ SpecSpending
\* Every money-spending command, tried with money below, at and above its
\* cost, on resorts with and without a pool, a gift shop and two staff
\* members, between day advances without visitors.
SpendingCfg == [QuietCfg EXCEPT !.personalities = {}]

InitSpending ==
    \E m \in {Yen(-5000), Yen(0), Yen(999), Yen(1000), Yen(1999), Yen(2000),
              Yen(4999), Yen(5000), Yen(49999), Yen(50000), Yen(99999), Yen(100000),
              Yen(160000)},
       ps \in {<<>>, <<PoolAt(50)>>},
       fs \in {<<>>, <<NewGiftShop(1)>>},
       roster \in {<<>>, <<NewStaff("Mori Aya", "Attendant", 2),
                            NewStaff("Sato Yuki", "Cleaner", 1)>>} :
        Scenario(m, 50 * RepScale, 2000, ps, fs, roster)

NewDaySpending == NewDay(SpendingCfg, MaxScenarioDay)

BuildPoolSpending == pools = <<>> /\ BuildPool("Small", 40)

CleanPoolSpending == pools # <<>> /\ pools[1].cleanliness < 100 /\ CleanPool(1)

BuildFacilitySpending == facilities = <<>> /\ BuildFacility(NewGiftShop(1))

UpgradeFacilitySpending ==
    facilities # <<>> /\ facilities[1].quality < 60 /\ UpgradeFacility(1)

GiveBonusSpending == staff # <<>> /\ staff[1].happiness < 90 /\ GiveBonus(1, 1000)

GiveBonusAllSpending ==
    (\A i \in 1..Len(staff) : staff[i].happiness < 90) /\ GiveBonusAll(1000)

StartCampaignSpending == active_campaigns = <<>> /\ StartCampaign(1)

NextSpending ==
    \/ NewDaySpending
    \/ BuildPoolSpending
    \/ CleanPoolSpending
    \/ BuildFacilitySpending
    \/ UpgradeFacilitySpending
    \/ GiveBonusSpending
    \/ GiveBonusAllSpending
    \/ StartCampaignSpending

SpecSpending == InitSpending /\ [][NextSpending]_vars

\* The number of staff members whose record the step changes.
Rewarded == Cardinality({i \in 1..Len(staff) : staff'[i] # staff[i]})

\* C30: a player command (a step that leaves the day alone) that changes
\* pools, facilities, staff or the active campaigns happens only with money
\* not below its cost and lowers money by exactly that cost: 50000 for the
\* small pool, 2000 for its cleaning, 100000 for the gift shop, 10000 for
\* every ten quality points of the upgraded facility, the bonus times the
\* members rewarded, the campaign's cost.  A refused command is no step at
\* all.  So a command never takes money below zero.
C30_SpendingCommands ==
    [][day' = day =>
         LET spent == money - money'
         IN /\ spent > 0
            /\ ~(money < spent)
            /\ money >= 0 /\ money' >= 0
            /\ Len(pools') > Len(pools) => spent = Yen(50000)
            /\ (Len(pools') = Len(pools) /\ pools' # pools) => spent = Yen(2000)
            /\ Len(facilities') > Len(facilities) => spent = Yen(100000)
            /\ (Len(facilities') = Len(facilities) /\ facilities' # facilities)
                  => spent = Yen(10000 * (facilities[1].quality \div 10))
            /\ staff' # staff => (Len(staff') = Len(staff) /\ spent = Rewarded * Yen(1000))
            /\ active_campaigns' # active_campaigns
                  => spent = Yen(Campaigns[active_campaigns'[1]].cost)]_vars

\* The bonus to both staff members paid with exactly the 2000 it costs,
\* which leaves no money.
C30_Witness ==
    /\ day = 1
    /\ money = 0
    /\ Len(staff) = 2
    /\ \A i \in 1..2 : staff[i].happiness = 90
    /\ active_campaigns = <<>>

====
